---- MODULE Spec2Model ----
(***************************************************************************)
(* A model of the social API's use-case layer over its PostgreSQL          *)
(* repositories.  Every repository call is one SQL statement and therefore *)
(* one atomic step; a use case that makes several repository calls is a    *)
(* sequence of steps of the request (process) that runs it, so requests    *)
(* interleave between repository calls exactly as the per-request          *)
(* goroutines of net/http do.  The database is taken to be reachable:      *)
(* the only repository errors are the ones the schema and the statements   *)
(* produce (no rows, unique violation, foreign-key violation).             *)
(*                                                                         *)
(* UUIDs are modelled as naturals: 0 is the all-zero UUID, the ids the     *)
(* database generates are 1, 2, ... in creation order, so the order of     *)
(* created_at is the order of the ids.  Strings are TLA+ strings; nil      *)
(* pointers and nil errors are the empty sequence, a non-nil pointer to v  *)
(* is <<v>>, an error is the sequence of its message layers, outermost     *)
(* first (fmt.Errorf("...: %w", err) prepends a layer).                    *)
(***************************************************************************)
EXTENDS Integers, Sequences, FiniteSets, TLC

VARIABLES
    users,      \* table users: sequence of rows, row i has id i
    follows,    \* table followers: rows <<user_id, follower_id>> in created_at order
    posts,      \* table posts: set of rows
    nextPostID, \* number of posts ever inserted (ids are never reused)
    likes,      \* table likes: set of rows [userID, postID]
    comments,   \* table comments: set of rows
    nextCommentID, \* number of comments ever inserted
    proc        \* per request process: the call in flight or last completed

vars == <<users, follows, posts, nextPostID, likes, comments, nextCommentID, proc>>

-----------------------------------------------------------------------------
(* Bounds of the model *)

\* ids 0..MaxID are the UUIDs callers pass (stored or not)
MaxID == 3
\* at most MaxPosts posts are ever created
MaxPosts == 2
\* at most MaxComments comments are ever created
MaxComments == 2

(* Program constants *)
MaxNameLen == 100
MinUsernameLen == 3
MaxUsernameLen == 50
MinPasswordLen == 6
MaxBioLen == 500
MaxPostLen == 1000
MaxCommentLen == 500

IDs == 0..MaxID

-----------------------------------------------------------------------------
(* Values *)

Nil == <<>>
Ptr(v) == <<v>>

\* a string of n characters
RECURSIVE Pad(_)
Pad(n) ==
    IF n = 0 THEN ""
    ELSE IF n % 2 = 0 THEN LET h == Pad(n \div 2) IN h \o h
    ELSE "x" \o Pad(n - 1)

Chars(s) == {SubSeq(s, i, i) : i \in 1..Len(s)}

LowerLetters ==
    {"a", "b", "c", "d", "e", "f", "g", "h", "i", "j", "k", "l", "m",
     "n", "o", "p", "q", "r", "s", "t", "u", "v", "w", "x", "y", "z"}
UpperLetters ==
    {"A", "B", "C", "D", "E", "F", "G", "H", "I", "J", "K", "L", "M",
     "N", "O", "P", "Q", "R", "S", "T", "U", "V", "W", "X", "Y", "Z"}
Digits == {"0", "1", "2", "3", "4", "5", "6", "7", "8", "9"}

-----------------------------------------------------------------------------
(* Errors: repo sentinels, wrapping and errors.Is *)

NoErr == <<>>
ErrNotFound == <<"requested item not found">>
ErrDuplicateEmail == <<"user with this email already exists">>
ErrDuplicateUsername == <<"user with this username already exists">>
ErrInvalidCredentials == <<"invalid credentials">>
ErrUnauthorized == <<"unauthorized access">>
Sentinels ==
    {ErrNotFound, ErrDuplicateEmail, ErrDuplicateUsername,
     ErrInvalidCredentials, ErrUnauthorized}

\* fmt.Errorf(msg + ": %w", err)
Wrap(msg, err) == <<msg>> \o err

\* errors.Is(err, target) for a sentinel target: some layer of err is target
ErrorsIs(err, target) ==
    \E i \in 1..Len(err) : SubSeq(err, i, Len(err)) = target

\* what pgx reports for a violated UNIQUE constraint and for a violated
\* foreign key
PgUniqueViolation == <<"ERROR: duplicate key value violates unique constraint (SQLSTATE 23505)">>
PgForeignKeyViolation == <<"ERROR: insert or update violates foreign key constraint (SQLSTATE 23503)">>
ValidationErrors == <<"Error:Field validation failed">>

-----------------------------------------------------------------------------
(* entity.User.Validate and entity.Post.Validate (go-playground/validator) *)

\* variant of IsAlphanum that also accepts hyphens
IsAlphanumOrHyphen(s) ==
    /\ Len(s) > 0
    /\ Chars(s) \subseteq (LowerLetters \cup UpperLetters \cup Digits \cup {"-"})

\* validator "alphanum"
IsAlphanum(s) ==
    /\ Len(s) > 0
    /\ Chars(s) \subseteq (LowerLetters \cup UpperLetters \cup Digits)

\* validator "email", reduced to: one "@" with a non-empty part on each side
IsEmail(s) ==
    LET ats == {i \in 1..Len(s) : SubSeq(s, i, i) = "@"} IN
    /\ Cardinality(ats) = 1
    /\ \A i \in ats : 1 < i /\ i < Len(s)
    /\ " " \notin Chars(s)

\* validator "url", reduced to: a scheme of letters, ":", and something after
IsURL(s) ==
    \E i \in 2..(Len(s) - 1) :
        /\ SubSeq(s, i, i) = ":"
        /\ Chars(SubSeq(s, 1, i - 1)) \subseteq (LowerLetters \cup UpperLetters)
        /\ " " \notin Chars(s)

UserValidate(u) ==
    /\ Len(u.name) >= 1 /\ Len(u.name) <= MaxNameLen
    /\ Len(u.username) >= MinUsernameLen /\ Len(u.username) <= MaxUsernameLen
    /\ IsAlphanum(u.username)
    /\ IsEmail(u.email)
    /\ Len(u.password) >= MinPasswordLen
    /\ (u.bio # Nil => Len(u.bio[1]) <= MaxBioLen)
    /\ (u.imageURL # Nil => IsURL(u.imageURL[1]))

PostValidate(p) ==
    /\ Len(p.content) >= 1 /\ Len(p.content) <= MaxPostLen
    /\ (p.imageURL # Nil => IsURL(p.imageURL[1]))

-----------------------------------------------------------------------------
(* bcrypt *)

\* bcrypt.GenerateFromPassword: the stored hash is never the password
HashPassword(pw) == "$2a$10$" \o pw

\* bcrypt.CompareHashAndPassword(hash, pw) = nil
CompareHashAndPassword(hash, pw) == hash = HashPassword(pw)

-----------------------------------------------------------------------------
(* SQL helpers *)

Min(S) == CHOOSE x \in S : \A y \in S : x <= y

Reverse(rows) == [i \in 1..Len(rows) |-> rows[Len(rows) + 1 - i]]

\* the rows of a sequence at the indexes idx, in order
RECURSIVE RowsAt(_, _)
RowsAt(rows, idx) ==
    IF idx = {} THEN <<>>
    ELSE LET m == Min(idx) IN <<rows[m]>> \o RowsAt(rows, idx \ {m})

\* LIMIT limit OFFSET offset (both non-negative)
\* variant of Page without the LIMIT clause
PageNoLimit(rows, limit, offset) ==
    SubSeq(rows, offset + 1, Len(rows))

Page(rows, limit, offset) ==
    LET last == IF offset + limit < Len(rows) THEN offset + limit ELSE Len(rows)
    IN  SubSeq(rows, offset + 1, last)

ToLower(c) ==
    LET up == <<"A", "B", "C", "D", "E", "F", "G", "H", "I", "J", "K", "L", "M",
                "N", "O", "P", "Q", "R", "S", "T", "U", "V", "W", "X", "Y", "Z">>
        lo == <<"a", "b", "c", "d", "e", "f", "g", "h", "i", "j", "k", "l", "m",
                "n", "o", "p", "q", "r", "s", "t", "u", "v", "w", "x", "y", "z">>
    IN  IF c \in UpperLetters
        THEN lo[CHOOSE i \in 1..26 : up[i] = c]
        ELSE c

\* s ILIKE pat ("%" any run of characters, "_" any one character)
RECURSIVE ILike(_, _)
ILike(s, pat) ==
    IF pat = "" THEN s = ""
    ELSE LET c == SubSeq(pat, 1, 1)
             rest == SubSeq(pat, 2, Len(pat))
         IN  IF c = "%"
             THEN ILike(s, rest) \/ (s # "" /\ ILike(SubSeq(s, 2, Len(s)), pat))
             ELSE /\ s # ""
                  /\ (c = "_" \/ ToLower(c) = ToLower(SubSeq(s, 1, 1)))
                  /\ ILike(SubSeq(s, 2, Len(s)), rest)

-----------------------------------------------------------------------------
(* postgres.UserRepo: each operator is one statement on the table tbl *)

Ret(err, val) == [err |-> err, val |-> val]
NoRet == Ret(NoErr, Nil)

\* SELECT ... FROM users WHERE <field> = $1, scanned by QueryRow (first row)
GetUserByField(tbl, field, value) ==
    LET hits == {i \in 1..Len(tbl) : tbl[i][field] = value} IN
    IF hits = {} THEN Ret(ErrNotFound, Nil) ELSE Ret(NoErr, Ptr(tbl[Min(hits)]))

UserRepoGetByID(tbl, id) == GetUserByField(tbl, "id", id)
UserRepoGetByEmail(tbl, email) == GetUserByField(tbl, "email", email)
UserRepoGetByUsername(tbl, username) == GetUserByField(tbl, "username", username)

\* variant of UserRepoCreate on a table without the UNIQUE constraints
UserRepoCreateNoUnique(tbl, user) ==
    LET row == [user EXCEPT !.id = Len(tbl) + 1] IN
    [err |-> NoErr, tbl |-> Append(tbl, row), user |-> row]

\* INSERT INTO users ... RETURNING id: username and email are UNIQUE columns
UserRepoCreate(tbl, user) ==
    IF \E i \in 1..Len(tbl) :
           tbl[i].username = user.username \/ tbl[i].email = user.email
    THEN [err |-> Wrap("user already exists", PgUniqueViolation),
          tbl |-> tbl, user |-> user]
    ELSE LET row == [user EXCEPT !.id = Len(tbl) + 1] IN
         [err |-> NoErr, tbl |-> Append(tbl, row), user |-> row]

\* UPDATE users SET name, bio, profile_picture_url WHERE id = $4
UserRepoUpdate(tbl, user) ==
    IF \E i \in 1..Len(tbl) : tbl[i].id = user.id
    THEN [err |-> NoErr,
          tbl |-> [i \in 1..Len(tbl) |->
                     IF tbl[i].id = user.id
                     THEN [tbl[i] EXCEPT !.name = user.name, !.bio = user.bio,
                                         !.imageURL = user.imageURL]
                     ELSE tbl[i]]]
    ELSE [err |-> ErrNotFound, tbl |-> tbl]

\* SELECT ... WHERE name ILIKE $1 OR username ILIKE $1
\* ORDER BY created_at DESC LIMIT $2 OFFSET $3, with $1 = "%" + query + "%"
UserRepoSearch(tbl, query, limit, offset) ==
    LET pat == "%" \o query \o "%"
        hits == {i \in 1..Len(tbl) :
                    ILike(tbl[i].name, pat) \/ ILike(tbl[i].username, pat)}
    IN  Page(Reverse(RowsAt(tbl, hits)), limit, offset)

-----------------------------------------------------------------------------
(* postgres.FollowRepo *)

UserIDsOf(tbl) == {tbl[i].id : i \in 1..Len(tbl)}
EdgesOf(flw) == {flw[i] : i \in 1..Len(flw)}

\* INSERT INTO followers (user_id, follower_id) VALUES ($1, $2)
\* ON CONFLICT DO NOTHING RETURNING created_at, scanned by QueryRow:
\* a conflicting insert returns no row, which Scan reports as pgx.ErrNoRows
FollowRepoCreate(flw, tbl, userID, followerID) ==
    IF <<userID, followerID>> \in EdgesOf(flw)
    THEN [err |-> Wrap("failed to create follow", <<"no rows in result set">>),
          flw |-> flw]
    ELSE IF userID \notin UserIDsOf(tbl) \/ followerID \notin UserIDsOf(tbl)
    THEN [err |-> Wrap("failed to create follow", PgForeignKeyViolation),
          flw |-> flw]
    ELSE [err |-> NoErr, flw |-> Append(flw, <<userID, followerID>>)]

\* variant of FollowRepoDelete that reports a missing edge as ErrNotFound
FollowRepoDeleteNotFound(flw, userID, followerID) ==
    IF <<userID, followerID>> \in EdgesOf(flw)
    THEN [err |-> NoErr,
          flw |-> RowsAt(flw, {i \in 1..Len(flw) : flw[i] # <<userID, followerID>>})]
    ELSE [err |-> ErrNotFound, flw |-> flw]

\* DELETE FROM followers WHERE user_id = $1 AND follower_id = $2;
\* no row affected is "follow relationship not found"
FollowRepoDelete(flw, userID, followerID) ==
    IF <<userID, followerID>> \in EdgesOf(flw)
    THEN [err |-> NoErr,
          flw |-> RowsAt(flw, {i \in 1..Len(flw) : flw[i] # <<userID, followerID>>})]
    ELSE [err |-> <<"follow relationship not found">>, flw |-> flw]

\* SELECT EXISTS(SELECT 1 FROM followers WHERE user_id = $1 AND follower_id = $2)
FollowRepoExists(flw, userID, followerID) == <<userID, followerID>> \in EdgesOf(flw)

\* SELECT u.* FROM users u JOIN followers f ON u.id = f.follower_id
\* WHERE f.user_id = $1 ORDER BY f.created_at DESC
FollowersOf(flw, tbl, userID) ==
    LET edges == Reverse(RowsAt(flw, {i \in 1..Len(flw) : flw[i][1] = userID}))
    IN  [i \in 1..Len(edges) |-> UserRepoGetByID(tbl, edges[i][2]).val[1]]

\* variant of FollowingOf that joins and filters on the columns of
\* FollowersOf
FollowingOfFollowers(flw, tbl, followerID) ==
    LET edges == Reverse(RowsAt(flw, {i \in 1..Len(flw) : flw[i][1] = followerID}))
    IN  [i \in 1..Len(edges) |-> UserRepoGetByID(tbl, edges[i][2]).val[1]]

\* SELECT u.* FROM users u JOIN followers f ON u.id = f.user_id
\* WHERE f.follower_id = $1 ORDER BY f.created_at DESC
FollowingOf(flw, tbl, followerID) ==
    LET edges == Reverse(RowsAt(flw, {i \in 1..Len(flw) : flw[i][2] = followerID}))
    IN  [i \in 1..Len(edges) |-> UserRepoGetByID(tbl, edges[i][1]).val[1]]

\* the same two queries with LIMIT $2 OFFSET $3 (repo.Follow's signature)
FollowRepoGetFollowers(flw, tbl, userID, limit, offset) ==
    Page(FollowersOf(flw, tbl, userID), limit, offset)
FollowRepoGetFollowing(flw, tbl, followerID, limit, offset) ==
    Page(FollowingOf(flw, tbl, followerID), limit, offset)

-----------------------------------------------------------------------------
(* usecase.userService: the code between two repository calls, with the   *)
(* call that ends it, as a function of the tables                          *)

NewUser(name, username, email, password) ==
    [id |-> 0, name |-> name, username |-> username, email |-> email,
     password |-> password, bio |-> Nil, imageURL |-> Nil]

ClearPassword(user) == [user EXCEPT !.password = ""]

ClearPasswords(list) == [i \in 1..Len(list) |-> ClearPassword(list[i])]

Done(ret) == [pc |-> "idle", ret |-> ret, loc |-> Nil]
Goto(pc, loc) == [pc |-> pc, ret |-> NoRet, loc |-> loc]

\* variant of RegisterCheckEmail whose first lookup is by username
RegisterCheckEmailByUsername(tbl, user) ==
    IF ~UserValidate(user)
    THEN Done(Ret(Wrap("validation failed", ValidationErrors), Nil))
    ELSE IF UserRepoGetByUsername(tbl, user.username).err = NoErr
    THEN Done(Ret(ErrDuplicateEmail, Nil))
    ELSE Goto("checkUsername", Nil)

\* Register: Validate, then GetByEmail
RegisterCheckEmail(tbl, user) ==
    IF ~UserValidate(user)
    THEN Done(Ret(Wrap("validation failed", ValidationErrors), Nil))
    ELSE LET r == UserRepoGetByEmail(tbl, user.email) IN
         IF r.err = NoErr THEN Done(Ret(ErrDuplicateEmail, Nil))
         ELSE IF ~ErrorsIs(r.err, ErrNotFound)
         THEN Done(Ret(Wrap("failed to check email", r.err), Nil))
         ELSE Goto("checkUsername", Nil)

\* Register: GetByUsername
RegisterCheckUsername(tbl, user) ==
    LET r == UserRepoGetByUsername(tbl, user.username) IN
    IF r.err = NoErr THEN Done(Ret(ErrDuplicateUsername, Nil))
    ELSE IF ~ErrorsIs(r.err, ErrNotFound)
    THEN Done(Ret(Wrap("failed to check username", r.err), Nil))
    ELSE Goto("create", Nil)

\* variant of RegisterCreateError that maps a unique violation to a sentinel
RegisterCreateErrorMapped(err) ==
    IF ErrorsIs(err, PgUniqueViolation) THEN ErrDuplicateEmail
    ELSE Wrap("failed to create user", err)

\* Register: the error of a failed userRepo.Create, as returned to the caller
RegisterCreateError(err) == Wrap("failed to create user", err)

\* Register: hash the password, Create, clear the password of the result
RegisterInsert(tbl, user) ==
    LET r == UserRepoCreate(tbl, [user EXCEPT !.password = HashPassword(user.password)])
    IN  IF r.err # NoErr
        THEN [ret |-> Ret(RegisterCreateError(r.err), Nil), tbl |-> tbl]
        ELSE [ret |-> Ret(NoErr, Ptr(ClearPassword(r.user))), tbl |-> r.tbl]

LoginToken == "jwt-token-placeholder"

\* variant of LoginResult that hands the repository's error to the caller
LoginResultLeak(tbl, email, password) ==
    LET r == UserRepoGetByEmail(tbl, email) IN
    IF r.err # NoErr THEN Ret(r.err, <<"">>)
    ELSE IF ~CompareHashAndPassword(r.val[1].password, password)
    THEN Ret(ErrInvalidCredentials, <<"">>)
    ELSE Ret(NoErr, <<LoginToken>>)

\* Login: GetByEmail, then compare the hash
LoginResult(tbl, email, password) ==
    LET r == UserRepoGetByEmail(tbl, email) IN
    IF r.err # NoErr
    THEN IF ErrorsIs(r.err, ErrNotFound)
         THEN Ret(ErrInvalidCredentials, <<"">>)
         ELSE Ret(Wrap("failed to get user", r.err), <<"">>)
    ELSE IF ~CompareHashAndPassword(r.val[1].password, password)
    THEN Ret(ErrInvalidCredentials, <<"">>)
    ELSE Ret(NoErr, <<LoginToken>>)

\* GetProfile: GetByUsername, clear the password
GetProfileResult(tbl, username) ==
    LET r == UserRepoGetByUsername(tbl, username) IN
    IF r.err # NoErr THEN Ret(r.err, Nil)
    ELSE Ret(NoErr, Ptr(ClearPassword(r.val[1])))

\* variant of ApplyProfile that takes the bio as given, nil or not
ApplyProfileAll(user, name, bio, imageURL) ==
    [user EXCEPT !.name = IF name # Nil THEN name[1] ELSE @,
                 !.bio = bio,
                 !.imageURL = IF imageURL # Nil THEN imageURL ELSE @]

\* UpdateProfile: the fields given non-nil replace the loaded ones
ApplyProfile(user, name, bio, imageURL) ==
    [user EXCEPT !.name = IF name # Nil THEN name[1] ELSE @,
                 !.bio = IF bio # Nil THEN bio ELSE @,
                 !.imageURL = IF imageURL # Nil THEN imageURL ELSE @]

\* UpdateProfile: GetByID, apply the fields, Validate
UpdateProfileLoad(tbl, userID, name, bio, imageURL) ==
    LET r == UserRepoGetByID(tbl, userID) IN
    IF r.err # NoErr THEN Done(Ret(r.err, Nil))
    ELSE LET user == ApplyProfile(r.val[1], name, bio, imageURL) IN
         IF ~UserValidate(user)
         THEN Done(Ret(Wrap("validation failed", ValidationErrors), Nil))
         ELSE Goto("update", Ptr(user))

\* UpdateProfile: Update, clear the password
UpdateProfileStore(tbl, user) ==
    LET r == UserRepoUpdate(tbl, user) IN
    IF r.err # NoErr
    THEN [ret |-> Ret(Wrap("failed to update profile", r.err), Nil), tbl |-> tbl]
    ELSE [ret |-> Ret(NoErr, Ptr(ClearPassword(user))), tbl |-> r.tbl]

\* SearchUsers: Search, clear the passwords
SearchUsersResult(tbl, query, limit, offset) ==
    Ret(NoErr, ClearPasswords(UserRepoSearch(tbl, query, limit, offset)))

-----------------------------------------------------------------------------
(* usecase.interactionService *)

\* variant of FollowUserResult without the self-follow check
FollowUserResultNoSelfCheck(flw, tbl, userID, followerID) ==
    LET r == FollowRepoCreate(flw, tbl, userID, followerID) IN
    IF r.err # NoErr
    THEN [ret |-> Ret(Wrap("failed to follow user", r.err), Nil), flw |-> flw]
    ELSE [ret |-> Ret(NoErr, Nil), flw |-> r.flw]

\* FollowUser: the self-follow check, then followRepo.Create
FollowUserResult(flw, tbl, userID, followerID) ==
    IF userID = followerID
    THEN [ret |-> Ret(<<"you cannot follow yourself">>, Nil), flw |-> flw]
    ELSE LET r == FollowRepoCreate(flw, tbl, userID, followerID) IN
         IF r.err # NoErr
         THEN [ret |-> Ret(Wrap("failed to follow user", r.err), Nil), flw |-> flw]
         ELSE [ret |-> Ret(NoErr, Nil), flw |-> r.flw]

\* UnfollowUser: followRepo.Delete
UnfollowUserResult(flw, userID, followerID) ==
    LET r == FollowRepoDelete(flw, userID, followerID) IN
    IF r.err # NoErr
    THEN [ret |-> Ret(Wrap("failed to unfollow user", r.err), Nil), flw |-> flw]
    ELSE [ret |-> Ret(NoErr, Nil), flw |-> r.flw]

\* variant of SanitizeRelation that returns the rows as read
KeepPasswords(list) == list

\* the users a relation lookup returns to the caller
SanitizeRelation(list) == ClearPasswords(list)

\* getUsersByRelation: GetByUsername
GetUsersByRelationLoad(tbl, username) ==
    LET r == UserRepoGetByUsername(tbl, username) IN
    IF r.err # NoErr THEN Done(Ret(r.err, Nil)) ELSE Goto("relation", r.val)

\* getUsersByRelation: GetFollowers or GetFollowing, clear the passwords
GetUsersByRelationList(flw, tbl, user, limit, offset, isFollowers) ==
    LET list == IF isFollowers
                THEN FollowRepoGetFollowers(flw, tbl, user.id, limit, offset)
                ELSE FollowRepoGetFollowing(flw, tbl, user.id, limit, offset)
    IN  Ret(NoErr, SanitizeRelation(list))

-----------------------------------------------------------------------------
(* postgres.PostRepo *)

PostIDsOf(tbl) == {row.id : row \in tbl}
PostByID(tbl, id) == CHOOSE row \in tbl : row.id = id

\* variant of PostRepoCreate whose INSERT leaves the image_url column out
PostRepoCreateNoImage(tbl, utbl, nextID, post) ==
    IF post.authorID \notin UserIDsOf(utbl)
    THEN [err |-> Wrap("failed to create post", PgForeignKeyViolation),
          tbl |-> tbl, post |-> post]
    ELSE LET row == [post EXCEPT !.id = nextID] IN
         [err |-> NoErr, tbl |-> tbl \cup {[row EXCEPT !.imageURL = Nil]}, post |-> row]

\* INSERT INTO posts (author_id, content, image_url) ... RETURNING id;
\* author_id REFERENCES users(id)
PostRepoCreate(tbl, utbl, nextID, post) ==
    IF post.authorID \notin UserIDsOf(utbl)
    THEN [err |-> Wrap("failed to create post", PgForeignKeyViolation),
          tbl |-> tbl, post |-> post]
    ELSE LET row == [post EXCEPT !.id = nextID] IN
         [err |-> NoErr, tbl |-> tbl \cup {row}, post |-> row]

\* SELECT ... FROM posts WHERE id = $1
PostRepoGetByID(tbl, id) ==
    IF id \in PostIDsOf(tbl) THEN Ret(NoErr, Ptr(PostByID(tbl, id)))
    ELSE Ret(ErrNotFound, Nil)

\* UPDATE posts SET content = $1, image_url = $2 WHERE id = $3 RETURNING ...
PostRepoUpdate(tbl, post) ==
    IF post.id \in PostIDsOf(tbl)
    THEN [err |-> NoErr,
          tbl |-> {IF row.id = post.id
                   THEN [row EXCEPT !.content = post.content, !.imageURL = post.imageURL]
                   ELSE row : row \in tbl}]
    ELSE [err |-> ErrNotFound, tbl |-> tbl]

\* variant of PostRepoDelete that reports success and deletes nothing
PostRepoDeleteNothing(tbl, id) ==
    IF id \in PostIDsOf(tbl) THEN [err |-> NoErr, tbl |-> tbl]
    ELSE [err |-> ErrNotFound, tbl |-> tbl]

\* DELETE FROM posts WHERE id = $1
PostRepoDelete(tbl, id) ==
    IF id \in PostIDsOf(tbl)
    THEN [err |-> NoErr, tbl |-> {row \in tbl : row.id # id}]
    ELSE [err |-> ErrNotFound, tbl |-> tbl]

\* variant of CascadeComments for a post_id column without ON DELETE CASCADE
KeepComments(ctbl, ptbl) == ctbl

\* comments.post_id REFERENCES posts(id) ON DELETE CASCADE: the comments left
\* once the posts table is ptbl
CascadeComments(ctbl, ptbl) == {c \in ctbl : c.postID \in PostIDsOf(ptbl)}

\* likes.post_id REFERENCES posts(id) ON DELETE CASCADE
CascadeLikes(ltbl, ptbl) == {l \in ltbl : l.postID \in PostIDsOf(ptbl)}

-----------------------------------------------------------------------------
(* postgres.LikeRepo *)

NoRows == <<"no rows in result set">>

\* INSERT INTO likes (user_id, post_id) VALUES ($1, $2)
\* ON CONFLICT DO NOTHING RETURNING created_at, scanned by QueryRow:
\* a conflicting insert returns no row, which Scan reports as pgx.ErrNoRows
LikeRepoCreate(ltbl, utbl, ptbl, userID, postID) ==
    IF [userID |-> userID, postID |-> postID] \in ltbl
    THEN [err |-> Wrap("failed to create like", NoRows), tbl |-> ltbl]
    ELSE IF userID \notin UserIDsOf(utbl) \/ postID \notin PostIDsOf(ptbl)
    THEN [err |-> Wrap("failed to create like", PgForeignKeyViolation), tbl |-> ltbl]
    ELSE [err |-> NoErr, tbl |-> ltbl \cup {[userID |-> userID, postID |-> postID]}]

\* DELETE FROM likes WHERE user_id = $1 AND post_id = $2;
\* no row affected is "like not found"
LikeRepoDelete(ltbl, userID, postID) ==
    IF [userID |-> userID, postID |-> postID] \in ltbl
    THEN [err |-> NoErr, tbl |-> ltbl \ {[userID |-> userID, postID |-> postID]}]
    ELSE [err |-> <<"like not found">>, tbl |-> ltbl]

\* SELECT EXISTS(SELECT 1 FROM likes WHERE user_id = $1 AND post_id = $2)
LikeRepoExists(ltbl, userID, postID) == [userID |-> userID, postID |-> postID] \in ltbl

-----------------------------------------------------------------------------
(* postgres.CommentRepo *)

CommentIDsOf(ctbl) == {c.id : c \in ctbl}

\* the rows of a table in the order of their ids, which is the order of created_at
RECURSIVE SortByID(_)
SortByID(rows) ==
    IF rows = {} THEN <<>>
    ELSE LET first == CHOOSE r \in rows : \A q \in rows : r.id <= q.id
         IN  <<first>> \o SortByID(rows \ {first})

\* variant of CommentRepoCreate for a comments table without the foreign keys
CommentRepoCreateNoForeignKey(ctbl, utbl, ptbl, nextID, comment) ==
    LET row == [comment EXCEPT !.id = nextID] IN
    [err |-> NoErr, tbl |-> ctbl \cup {row}, comment |-> row]

\* INSERT INTO comments (post_id, author_id, content) ... RETURNING id;
\* post_id REFERENCES posts(id), author_id REFERENCES users(id)
CommentRepoCreate(ctbl, utbl, ptbl, nextID, comment) ==
    IF comment.postID \notin PostIDsOf(ptbl) \/ comment.authorID \notin UserIDsOf(utbl)
    THEN [err |-> Wrap("failed to create comment", PgForeignKeyViolation),
          tbl |-> ctbl, comment |-> comment]
    ELSE LET row == [comment EXCEPT !.id = nextID] IN
         [err |-> NoErr, tbl |-> ctbl \cup {row}, comment |-> row]

\* SELECT ... FROM comments WHERE post_id = $1 ORDER BY created_at ASC
\* LIMIT $2 OFFSET $3
CommentRepoGetByPostID(ctbl, postID, limit, offset) ==
    Page(SortByID({c \in ctbl : c.postID = postID}), limit, offset)

\* DELETE FROM comments WHERE id = $1; no row affected is ErrNotFound
CommentRepoDelete(ctbl, id) ==
    IF id \in CommentIDsOf(ctbl)
    THEN [err |-> NoErr, tbl |-> {c \in ctbl : c.id # id}]
    ELSE [err |-> ErrNotFound, tbl |-> ctbl]

-----------------------------------------------------------------------------
(* postgres.PostRepo: the list queries *)

\* SELECT ... FROM posts WHERE author_id = $1 ORDER BY created_at DESC
\* LIMIT $2 OFFSET $3
PostRepoGetByAuthorID(ptbl, authorID, limit, offset) ==
    Page(Reverse(SortByID({post \in ptbl : post.authorID = authorID})), limit, offset)

\* variant of FeedJoin that joins the posts with the followers of the user
FeedJoinFollowers(ptbl, flw, userID) ==
    {j \in {[post |-> post, edge |-> i] : post \in ptbl, i \in 1..Len(flw)} :
        /\ j.post.authorID = flw[j.edge][2]
        /\ flw[j.edge][1] = userID}

\* FROM posts p JOIN followers f ON p.author_id = f.user_id
\* WHERE f.follower_id = $1: one joined row per pair of a post and an edge
FeedJoin(ptbl, flw, userID) ==
    {j \in {[post |-> post, edge |-> i] : post \in ptbl, i \in 1..Len(flw)} :
        /\ j.post.authorID = flw[j.edge][1]
        /\ flw[j.edge][2] = userID}

\* ORDER BY p.created_at DESC over the joined rows
RECURSIVE NewestFirst(_)
NewestFirst(joined) ==
    IF joined = {} THEN <<>>
    ELSE LET first == CHOOSE r \in joined : \A q \in joined :
                         \/ r.post.id > q.post.id
                         \/ r.post.id = q.post.id /\ r.edge <= q.edge
         IN  <<first.post>> \o NewestFirst(joined \ {first})

\* SELECT p.* FROM posts p JOIN followers f ... ORDER BY p.created_at DESC
\* LIMIT $2 OFFSET $3
PostRepoGetFeed(ptbl, flw, userID, limit, offset) ==
    Page(NewestFirst(FeedJoin(ptbl, flw, userID)), limit, offset)

-----------------------------------------------------------------------------
(* usecase.postService *)

NewPost(authorID, content, imageURL) ==
    [id |-> 0, authorID |-> authorID, content |-> content, imageURL |-> imageURL]

\* CreatePost: Validate, then Create
CreatePostResult(tbl, utbl, nextID, authorID, content, imageURL) ==
    LET post == NewPost(authorID, content, imageURL) IN
    IF ~PostValidate(post)
    THEN [ret |-> Ret(Wrap("validation failed", ValidationErrors), Nil), tbl |-> tbl]
    ELSE LET r == PostRepoCreate(tbl, utbl, nextID, post) IN
         IF r.err # NoErr
         THEN [ret |-> Ret(Wrap("failed to create post", r.err), Nil), tbl |-> tbl]
         ELSE [ret |-> Ret(NoErr, Ptr(r.post)), tbl |-> r.tbl]

\* GetPostByID
GetPostByIDResult(tbl, postID) == PostRepoGetByID(tbl, postID)

\* variant of IsAuthor without the comparison
IsAuthorAlways(post, userID) == TRUE

\* the ownership check of UpdatePost and DeletePost
IsAuthor(post, userID) == post.authorID = userID

\* variant of ApplyPost that takes the image URL as given, nil or not
ApplyPostAll(post, content, imageURL) ==
    [post EXCEPT !.content = content, !.imageURL = imageURL]

\* UpdatePost: the content always replaces, the image URL only when given
ApplyPost(post, content, imageURL) ==
    [post EXCEPT !.content = content,
                 !.imageURL = IF imageURL # Nil THEN imageURL ELSE @]

\* UpdatePost: GetByID, the ownership check, apply the fields, Validate
UpdatePostLoad(tbl, postID, userID, content, imageURL) ==
    LET r == PostRepoGetByID(tbl, postID) IN
    IF r.err # NoErr THEN Done(Ret(r.err, Nil))
    ELSE IF ~IsAuthor(r.val[1], userID) THEN Done(Ret(ErrUnauthorized, Nil))
    ELSE LET post == ApplyPost(r.val[1], content, imageURL) IN
         IF ~PostValidate(post)
         THEN Done(Ret(Wrap("validation failed", ValidationErrors), Nil))
         ELSE Goto("update", Ptr(post))

\* UpdatePost: Update
UpdatePostStore(tbl, post) ==
    LET r == PostRepoUpdate(tbl, post) IN
    IF r.err # NoErr
    THEN [ret |-> Ret(Wrap("failed to update post", r.err), Nil), tbl |-> tbl]
    ELSE [ret |-> Ret(NoErr, Ptr(post)), tbl |-> r.tbl]

\* DeletePost: GetByID, the ownership check
DeletePostLoad(tbl, postID, userID) ==
    LET r == PostRepoGetByID(tbl, postID) IN
    IF r.err # NoErr THEN Done(Ret(r.err, Nil))
    ELSE IF ~IsAuthor(r.val[1], userID) THEN Done(Ret(ErrUnauthorized, Nil))
    ELSE Goto("delete", Nil)

\* DeletePost: Delete
DeletePostRemove(tbl, postID) ==
    LET r == PostRepoDelete(tbl, postID) IN
    IF r.err # NoErr
    THEN [ret |-> Ret(Wrap("failed to delete post", r.err), Nil), tbl |-> tbl]
    ELSE [ret |-> Ret(NoErr, Nil), tbl |-> r.tbl]

\* GetPostsByUser: userRepo.GetByUsername
GetPostsByUserLoad(utbl, username) ==
    LET r == UserRepoGetByUsername(utbl, username) IN
    IF r.err # NoErr THEN Done(Ret(r.err, Nil)) ELSE Goto("posts", r.val)

\* GetPostsByUser: postRepo.GetByAuthorID
GetPostsByUserList(ptbl, user, limit, offset) ==
    Ret(NoErr, PostRepoGetByAuthorID(ptbl, user.id, limit, offset))

\* GetFeed: postRepo.GetFeed
GetFeedResult(ptbl, flw, userID, limit, offset) ==
    Ret(NoErr, PostRepoGetFeed(ptbl, flw, userID, limit, offset))

-----------------------------------------------------------------------------
(* usecase.interactionService: likes *)

\* LikePost: likeRepo.Create
LikePostResult(ltbl, utbl, ptbl, postID, userID) ==
    LET r == LikeRepoCreate(ltbl, utbl, ptbl, userID, postID) IN
    IF r.err # NoErr
    THEN [ret |-> Ret(Wrap("failed to like post", r.err), Nil), tbl |-> ltbl]
    ELSE [ret |-> Ret(NoErr, Nil), tbl |-> r.tbl]

\* UnlikePost: likeRepo.Delete
UnlikePostResult(ltbl, postID, userID) ==
    LET r == LikeRepoDelete(ltbl, userID, postID) IN
    IF r.err # NoErr
    THEN [ret |-> Ret(Wrap("failed to unlike post", r.err), Nil), tbl |-> ltbl]
    ELSE [ret |-> Ret(NoErr, Nil), tbl |-> r.tbl]

-----------------------------------------------------------------------------
(* usecase.interactionService, the direct implementation: the two list      *)
(* methods, and the repository calls each method makes                      *)

\* GetFollowers: userRepo.GetByUsername
GetFollowersLoad(tbl, username) ==
    LET r == UserRepoGetByUsername(tbl, username) IN
    IF r.err # NoErr THEN Done(Ret(r.err, Nil)) ELSE Goto("followers", r.val)

\* GetFollowers: followRepo.GetFollowers, clear the passwords
GetFollowersList(flw, tbl, user, limit, offset) ==
    Ret(NoErr, ClearPasswords(FollowRepoGetFollowers(flw, tbl, user.id, limit, offset)))

\* GetFollowing: userRepo.GetByUsername
GetFollowingLoad(tbl, username) ==
    LET r == UserRepoGetByUsername(tbl, username) IN
    IF r.err # NoErr THEN Done(Ret(r.err, Nil)) ELSE Goto("following", r.val)

\* GetFollowing: followRepo.GetFollowing, clear the passwords
GetFollowingList(flw, tbl, user, limit, offset) ==
    Ret(NoErr, ClearPasswords(FollowRepoGetFollowing(flw, tbl, user.id, limit, offset)))

\* a repository call: the method and its arguments
RepoCall(method, args) == [method |-> method, args |-> args]

\* the repository calls of the direct methods, in the order they are made
DirectCalls(op, a, tbl) ==
    CASE op = "LikePost" -> <<RepoCall("likeRepo.Create", <<a.userID, a.postID>>)>>
      [] op = "UnlikePost" -> <<RepoCall("likeRepo.Delete", <<a.userID, a.postID>>)>>
      [] op = "FollowUser" ->
            IF a.userID = a.followerID THEN <<>>
            ELSE <<RepoCall("followRepo.Create", <<a.userID, a.followerID>>)>>
      [] op = "UnfollowUser" ->
            <<RepoCall("followRepo.Delete", <<a.userID, a.followerID>>)>>
      [] op = "GetFollowers" ->
            LET r == UserRepoGetByUsername(tbl, a.username) IN
            <<RepoCall("userRepo.GetByUsername", <<a.username>>)>> \o
            (IF r.err # NoErr THEN <<>>
             ELSE <<RepoCall("followRepo.GetFollowers", <<r.val[1].id, a.limit, a.offset>>)>>)
      [] op = "GetFollowing" ->
            LET r == UserRepoGetByUsername(tbl, a.username) IN
            <<RepoCall("userRepo.GetByUsername", <<a.username>>)>> \o
            (IF r.err # NoErr THEN <<>>
             ELSE <<RepoCall("followRepo.GetFollowing", <<r.val[1].id, a.limit, a.offset>>)>>)

-----------------------------------------------------------------------------
(* usecase.interactionService, the refactored implementation *)

\* handleLikeInteraction: likeRepo.Create or likeRepo.Delete, the error
\* wrapped as "failed to like post" or "failed to unlike post"
HandleLikeInteractionResult(ltbl, utbl, ptbl, postID, userID, isLike) ==
    LET r == IF isLike THEN LikeRepoCreate(ltbl, utbl, ptbl, userID, postID)
             ELSE LikeRepoDelete(ltbl, userID, postID)
        action == IF isLike THEN "like" ELSE "unlike"
    IN  IF r.err # NoErr
        THEN [ret |-> Ret(Wrap("failed to " \o action \o " post", r.err), Nil), tbl |-> ltbl]
        ELSE [ret |-> Ret(NoErr, Nil), tbl |-> r.tbl]

\* variant of HandleFollowInteractionResult whose self-follow check does not
\* look at isFollow
HandleFollowInteractionSelfCheckAlways(flw, tbl, userID, followerID, isFollow) ==
    IF userID = followerID
    THEN [ret |-> Ret(<<"you cannot follow yourself">>, Nil), flw |-> flw]
    ELSE LET r == IF isFollow THEN FollowRepoCreate(flw, tbl, userID, followerID)
                  ELSE FollowRepoDelete(flw, userID, followerID)
             action == IF isFollow THEN "follow" ELSE "unfollow"
         IN  IF r.err # NoErr
             THEN [ret |-> Ret(Wrap("failed to " \o action \o " user", r.err), Nil),
                   flw |-> flw]
             ELSE [ret |-> Ret(NoErr, Nil), flw |-> r.flw]

\* handleFollowInteraction: the self-follow check when following, then
\* followRepo.Create or followRepo.Delete, the error wrapped as "failed to
\* follow user" or "failed to unfollow user"
HandleFollowInteractionResult(flw, tbl, userID, followerID, isFollow) ==
    IF isFollow /\ userID = followerID
    THEN [ret |-> Ret(<<"you cannot follow yourself">>, Nil), flw |-> flw]
    ELSE LET r == IF isFollow THEN FollowRepoCreate(flw, tbl, userID, followerID)
                  ELSE FollowRepoDelete(flw, userID, followerID)
             action == IF isFollow THEN "follow" ELSE "unfollow"
         IN  IF r.err # NoErr
             THEN [ret |-> Ret(Wrap("failed to " \o action \o " user", r.err), Nil),
                   flw |-> flw]
             ELSE [ret |-> Ret(NoErr, Nil), flw |-> r.flw]

\* the repository calls of the refactored methods, in the order they are made
RefactoredCalls(op, a, tbl) ==
    CASE op \in {"LikePost", "UnlikePost"} ->
            IF op = "LikePost"
            THEN <<RepoCall("likeRepo.Create", <<a.userID, a.postID>>)>>
            ELSE <<RepoCall("likeRepo.Delete", <<a.userID, a.postID>>)>>
      [] op \in {"FollowUser", "UnfollowUser"} ->
            IF op = "FollowUser" /\ a.userID = a.followerID THEN <<>>
            ELSE IF op = "FollowUser"
            THEN <<RepoCall("followRepo.Create", <<a.userID, a.followerID>>)>>
            ELSE <<RepoCall("followRepo.Delete", <<a.userID, a.followerID>>)>>
      [] op \in {"GetFollowers", "GetFollowing"} ->
            LET r == UserRepoGetByUsername(tbl, a.username) IN
            <<RepoCall("userRepo.GetByUsername", <<a.username>>)>> \o
            (IF r.err # NoErr THEN <<>>
             ELSE IF op = "GetFollowers"
             THEN <<RepoCall("followRepo.GetFollowers", <<r.val[1].id, a.limit, a.offset>>)>>
             ELSE <<RepoCall("followRepo.GetFollowing", <<r.val[1].id, a.limit, a.offset>>)>>)

-----------------------------------------------------------------------------
(* entity.Comment and usecase.commentService *)

NewComment(postID, authorID, content) ==
    [id |-> 0, postID |-> postID, authorID |-> authorID, content |-> content]

\* validate:"required,min=1,max=500"
CommentValidate(c) == Len(c.content) >= 1 /\ Len(c.content) <= MaxCommentLen

\* variant of AddCommentLoad that validates before it looks the post up
AddCommentLoadValidateFirst(ptbl, postID, userID, content) ==
    IF ~CommentValidate(NewComment(postID, userID, content))
    THEN Done(Ret(Wrap("validation failed", ValidationErrors), Nil))
    ELSE LET r == PostRepoGetByID(ptbl, postID) IN
         IF r.err # NoErr THEN Done(Ret(r.err, Nil))
         ELSE Goto("insert", Ptr(NewComment(postID, userID, content)))

\* AddComment: postRepo.GetByID, then Validate
AddCommentLoad(ptbl, postID, userID, content) ==
    LET r == PostRepoGetByID(ptbl, postID) IN
    IF r.err # NoErr THEN Done(Ret(r.err, Nil))
    ELSE IF ~CommentValidate(NewComment(postID, userID, content))
    THEN Done(Ret(Wrap("validation failed", ValidationErrors), Nil))
    ELSE Goto("insert", Ptr(NewComment(postID, userID, content)))

\* AddComment: commentRepo.Create
AddCommentStore(ctbl, utbl, ptbl, nextID, comment) ==
    LET r == CommentRepoCreate(ctbl, utbl, ptbl, nextID, comment) IN
    IF r.err # NoErr
    THEN [ret |-> Ret(Wrap("failed to add comment", r.err), Nil), tbl |-> ctbl]
    ELSE [ret |-> Ret(NoErr, Ptr(r.comment)), tbl |-> r.tbl]

\* GetComments: postRepo.GetByID
GetCommentsLoad(ptbl, postID) ==
    LET r == PostRepoGetByID(ptbl, postID) IN
    IF r.err # NoErr THEN Done(Ret(r.err, Nil)) ELSE Goto("list", Nil)

\* GetComments: commentRepo.GetByPostID
GetCommentsList(ctbl, postID, limit, offset) ==
    Ret(NoErr, CommentRepoGetByPostID(ctbl, postID, limit, offset))

\* GetComments(ctx, postID), the form Handler.getComments calls:
\* postRepo.GetByID, every error wrapped
GetCommentsAllLoad(ptbl, postID) ==
    LET r == PostRepoGetByID(ptbl, postID) IN
    IF r.err # NoErr THEN Done(Ret(Wrap("post not found", r.err), Nil))
    ELSE Goto("listAll", Nil)

\* GetComments(ctx, postID): commentRepo.GetByPostID(ctx, postID),
\* SELECT ... WHERE post_id = $1 ORDER BY created_at ASC
GetCommentsAllList(ctbl, postID) ==
    Ret(NoErr, SortByID({c \in ctbl : c.postID = postID}))

\* variant of DeleteCommentResult that compares userID with the comment's author
DeleteCommentOwnerChecked(ctbl, commentID, userID) ==
    IF \E c \in ctbl : c.id = commentID /\ c.authorID # userID
    THEN [ret |-> Ret(ErrUnauthorized, Nil), tbl |-> ctbl]
    ELSE LET r == CommentRepoDelete(ctbl, commentID) IN
         IF r.err = NoErr THEN [ret |-> Ret(NoErr, Nil), tbl |-> r.tbl]
         ELSE [ret |-> Ret(r.err, Nil), tbl |-> ctbl]

\* DeleteComment: commentRepo.Delete; userID is not used
DeleteCommentResult(ctbl, commentID, userID) ==
    LET r == CommentRepoDelete(ctbl, commentID) IN
    IF r.err = NoErr THEN [ret |-> Ret(NoErr, Nil), tbl |-> r.tbl]
    ELSE IF ErrorsIs(r.err, ErrNotFound) THEN [ret |-> Ret(r.err, Nil), tbl |-> ctbl]
    ELSE [ret |-> Ret(Wrap("failed to delete comment", r.err), Nil), tbl |-> ctbl]

-----------------------------------------------------------------------------
(* controller/http/v1: what a handler answers when its use case call       *)
(* returned the error err.  The handlers compare err with the sentinels by  *)
(* identity (err == repo.ErrNotFound), so a wrapped sentinel matches none.  *)

\* the placeholder user id of middleware.Auth,
\* uuid.Parse("00000000-0000-0000-0000-000000000000"); no stored row has it,
\* uuid_generate_v4() numbers the rows from 1 in this model
ZeroUUID == 0

\* uuid.UUID.String() of the placeholder id
ZeroUUIDString == "00000000-0000-0000-0000-000000000000"

\* uuid.UUID.String(): 32 hexadecimal digits in five groups separated by
\* hyphens; the ids of the model are below 10, so one digit holds them
UUIDString(id) == "00000000-0000-0000-0000-00000000000" \o ToString(id)

BearerPrefix == "Bearer "

\* strings.TrimPrefix(s, prefix)
TrimPrefix(s, prefix) ==
    IF Len(s) >= Len(prefix) /\ SubSeq(s, 1, Len(prefix)) = prefix
    THEN SubSeq(s, Len(prefix) + 1, Len(s))
    ELSE s

\* variant of Auth that takes the user id from the token
AuthByToken(authHeader) ==
    LET tokenString == TrimPrefix(authHeader, BearerPrefix) IN
    IF authHeader = "" THEN [status |-> 401, userID |-> Nil]
    ELSE IF tokenString = authHeader THEN [status |-> 401, userID |-> Nil]
    ELSE [status |-> 0, userID |-> Ptr(Len(tokenString))]

\* middleware.Auth: 401 without a header or without the Bearer prefix,
\* otherwise the placeholder id is put in the context and the handler runs
\* (status 0: not answered by the middleware)
Auth(authHeader) ==
    LET tokenString == TrimPrefix(authHeader, BearerPrefix) IN
    IF authHeader = "" THEN [status |-> 401, userID |-> Nil]
    ELSE IF tokenString = authHeader THEN [status |-> 401, userID |-> Nil]
    ELSE [status |-> 0, userID |-> Ptr(ZeroUUID)]

\* the routes of Handler.RegisterRoutes, by handler name
PublicRoutes ==
    {"register", "login", "getProfile", "searchUsers", "getPostByID", "getPostsByUser"}

\* the routes registered in the group that uses middleware.Auth
ProtectedRoutes ==
    {"getMyProfile", "updateProfile", "followUser", "unfollowUser", "getFollowers",
     "getFollowing", "createPost", "updatePost", "deletePost", "getFeed", "likePost",
     "unlikePost", "addComment", "getComments", "deleteComment"}

Routes == PublicRoutes \cup ProtectedRoutes

\* chi: the middleware of the group runs before the handler of its routes
RouterAuth(route, authHeader) ==
    IF route \in ProtectedRoutes THEN Auth(authHeader)
    ELSE [status |-> 0, userID |-> Nil]

DigitValue(c) ==
    CASE c = "0" -> 0 [] c = "1" -> 1 [] c = "2" -> 2 [] c = "3" -> 3 [] c = "4" -> 4
      [] c = "5" -> 5 [] c = "6" -> 6 [] c = "7" -> 7 [] c = "8" -> 8 [] c = "9" -> 9

RECURSIVE DecimalValue(_)
DecimalValue(s) ==
    IF s = "" THEN 0
    ELSE 10 * DecimalValue(SubSeq(s, 1, Len(s) - 1)) + DigitValue(SubSeq(s, Len(s), Len(s)))

\* strconv.Atoi: an optional sign and one or more decimal digits; anything
\* else, and a number of more than 19 digits, is an error (val 0)
Atoi(s) ==
    LET signed == s # "" /\ SubSeq(s, 1, 1) \in {"+", "-"}
        digits == IF signed THEN SubSeq(s, 2, Len(s)) ELSE s
    IN  IF digits = "" \/ Len(digits) > 19 \/ ~(Chars(digits) \subseteq Digits)
        THEN [err |-> TRUE, val |-> 0]
        ELSE [err |-> FALSE,
              val |-> IF signed /\ SubSeq(s, 1, 1) = "-"
                      THEN 0 - DecimalValue(digits) ELSE DecimalValue(digits)]

DefaultLimit == 20
MaxLimit == 100
DefaultOffset == 0

\* limit, err := strconv.Atoi(r.URL.Query().Get("limit")), defaulted and capped
ParseLimit(raw) ==
    LET n == Atoi(raw)
        limit == IF n.err \/ n.val <= 0 THEN DefaultLimit ELSE n.val
    IN  IF limit > MaxLimit THEN MaxLimit ELSE limit

\* offset, err := strconv.Atoi(r.URL.Query().Get("offset")), defaulted
ParseOffset(raw) ==
    LET n == Atoi(raw) IN
    IF n.err \/ n.val < 0 THEN DefaultOffset ELSE n.val

\* auth.go: register, login
AuthErrorStatus(op, err) ==
    CASE op = "Register" ->
            IF err = ErrDuplicateEmail THEN 409
            ELSE IF err = ErrDuplicateUsername THEN 409 ELSE 400
      [] op = "Login" -> IF err = ErrInvalidCredentials THEN 401 ELSE 500

\* user.go: getProfile, updateProfile, searchUsers, followUser, unfollowUser,
\* getFollowers, getFollowing
UserErrorStatus(op, err) ==
    CASE op \in {"GetProfile", "GetFollowers", "GetFollowing"} ->
            IF err = ErrNotFound THEN 404 ELSE 500
      [] op = "UpdateProfile" -> IF err = ErrNotFound THEN 404 ELSE 400
      [] op = "SearchUsers" -> 500
      [] op \in {"FollowUser", "UnfollowUser"} -> 400

\* post.go: createPost, getPostByID, getPostsByUser, updatePost, deletePost,
\* getFeed, likePost, unlikePost
PostErrorStatus(op, err) ==
    CASE op = "CreatePost" -> 400
      [] op \in {"GetPostByID", "GetPostsByUser"} ->
            IF err = ErrNotFound THEN 404 ELSE 500
      [] op = "UpdatePost" ->
            IF err = ErrNotFound THEN 404
            ELSE IF err = ErrUnauthorized THEN 403 ELSE 400
      [] op = "DeletePost" ->
            IF err = ErrNotFound THEN 404
            ELSE IF err = ErrUnauthorized THEN 403 ELSE 500
      [] op = "GetFeed" -> 500
      [] op \in {"LikePost", "UnlikePost"} -> 400

\* the comment handlers: addComment, getComments, deleteComment answer every
\* error alike
CommentErrorStatus(op, err) ==
    CASE op = "AddComment" -> 400
      [] op = "GetComments" -> 500
      [] op = "DeleteComment" -> 400

ErrorStatus(op, err) ==
    CASE op \in {"Register", "Login"} -> AuthErrorStatus(op, err)
      [] op \in {"AddComment", "GetComments", "DeleteComment"} -> CommentErrorStatus(op, err)
      [] op \in {"GetProfile", "GetFollowers", "GetFollowing", "UpdateProfile",
                 "SearchUsers", "FollowUser", "UnfollowUser"} -> UserErrorStatus(op, err)
      [] OTHER -> PostErrorStatus(op, err)

-----------------------------------------------------------------------------
(* The requests.  proc[p] is the call process p has in flight (pc # "idle") *)
(* or the last call it completed, with its arguments and what it returned. *)

Procs == {"p1", "p2"}

Call(op, arg, out) == [op |-> op, arg |-> arg, pc |-> out.pc, loc |-> out.loc, ret |-> out.ret]

Idle == [op |-> "none", arg |-> Nil, pc |-> "idle", loc |-> Nil, ret |-> NoRet]

Init ==
    /\ users = <<>>
    /\ follows = <<>>
    /\ posts = {}
    /\ nextPostID = 1
    /\ likes = {}
    /\ comments = {}
    /\ nextCommentID = 1
    /\ proc = [p \in Procs |-> Idle]

At(p, op, pc) == proc[p].op = op /\ proc[p].pc = pc

RegisterCall(p, name, username, email, password) ==
    /\ proc[p].pc = "idle"
    /\ LET user == NewUser(name, username, email, password) IN
       proc' = [proc EXCEPT ![p] = Call("Register", user, RegisterCheckEmail(users, user))]
    /\ UNCHANGED <<users, follows, posts, nextPostID, likes, comments, nextCommentID>>

RegisterUsername(p) ==
    /\ At(p, "Register", "checkUsername")
    /\ proc' = [proc EXCEPT ![p] =
                  Call("Register", proc[p].arg, RegisterCheckUsername(users, proc[p].arg))]
    /\ UNCHANGED <<users, follows, posts, nextPostID, likes, comments, nextCommentID>>

RegisterCreate(p) ==
    /\ At(p, "Register", "create")
    /\ LET out == RegisterInsert(users, proc[p].arg) IN
       /\ users' = out.tbl
       /\ proc' = [proc EXCEPT ![p] = Call("Register", proc[p].arg, Done(out.ret))]
    /\ UNCHANGED <<follows, posts, nextPostID, likes, comments, nextCommentID>>

Login(p, email, password) ==
    /\ proc[p].pc = "idle"
    /\ proc' = [proc EXCEPT ![p] =
                  Call("Login", [email |-> email, password |-> password],
                       Done(LoginResult(users, email, password)))]
    /\ UNCHANGED <<users, follows, posts, nextPostID, likes, comments, nextCommentID>>

GetProfile(p, username) ==
    /\ proc[p].pc = "idle"
    /\ proc' = [proc EXCEPT ![p] =
                  Call("GetProfile", [username |-> username],
                       Done(GetProfileResult(users, username)))]
    /\ UNCHANGED <<users, follows, posts, nextPostID, likes, comments, nextCommentID>>

\* variant of UpdateProfileCall with an ownership check on the requester
UpdateProfileCallOwnerChecked(p, requester, userID, name, bio, imageURL) ==
    /\ proc[p].pc = "idle"
    /\ proc' = [proc EXCEPT ![p] =
                  Call("UpdateProfile",
                       [requester |-> requester, userID |-> userID, name |-> name,
                        bio |-> bio, imageURL |-> imageURL],
                       IF requester # userID THEN Done(Ret(ErrUnauthorized, Nil))
                       ELSE UpdateProfileLoad(users, userID, name, bio, imageURL))]
    /\ UNCHANGED <<users, follows, posts, nextPostID, likes, comments, nextCommentID>>

\* requester is the id the caller is authenticated as; UpdateProfile does not
\* receive it (Handler.updateProfile passes it as userID)
UpdateProfileCall(p, requester, userID, name, bio, imageURL) ==
    /\ proc[p].pc = "idle"
    /\ proc' = [proc EXCEPT ![p] =
                  Call("UpdateProfile",
                       [requester |-> requester, userID |-> userID, name |-> name,
                        bio |-> bio, imageURL |-> imageURL],
                       UpdateProfileLoad(users, userID, name, bio, imageURL))]
    /\ UNCHANGED <<users, follows, posts, nextPostID, likes, comments, nextCommentID>>

UpdateProfileWrite(p) ==
    /\ At(p, "UpdateProfile", "update")
    /\ LET out == UpdateProfileStore(users, proc[p].loc[1]) IN
       /\ users' = out.tbl
       /\ proc' = [proc EXCEPT ![p] = Call("UpdateProfile", proc[p].arg, Done(out.ret))]
    /\ UNCHANGED <<follows, posts, nextPostID, likes, comments, nextCommentID>>

SearchUsers(p, query, limit, offset) ==
    /\ proc[p].pc = "idle"
    /\ proc' = [proc EXCEPT ![p] =
                  Call("SearchUsers", [query |-> query, limit |-> limit, offset |-> offset],
                       Done(SearchUsersResult(users, query, limit, offset)))]
    /\ UNCHANGED <<users, follows, posts, nextPostID, likes, comments, nextCommentID>>

FollowUser(p, userID, followerID) ==
    /\ proc[p].pc = "idle"
    /\ LET out == FollowUserResult(follows, users, userID, followerID) IN
       /\ follows' = out.flw
       /\ proc' = [proc EXCEPT ![p] =
                     Call("FollowUser", [userID |-> userID, followerID |-> followerID],
                          Done(out.ret))]
    /\ UNCHANGED <<users, posts, nextPostID, likes, comments, nextCommentID>>

UnfollowUser(p, userID, followerID) ==
    /\ proc[p].pc = "idle"
    /\ LET out == UnfollowUserResult(follows, userID, followerID) IN
       /\ follows' = out.flw
       /\ proc' = [proc EXCEPT ![p] =
                     Call("UnfollowUser", [userID |-> userID, followerID |-> followerID],
                          Done(out.ret))]
    /\ UNCHANGED <<users, posts, nextPostID, likes, comments, nextCommentID>>

\* GetFollowers (isFollowers) and GetFollowing
GetRelationCall(p, username, limit, offset, isFollowers) ==
    /\ proc[p].pc = "idle"
    /\ proc' = [proc EXCEPT ![p] =
                  Call(IF isFollowers THEN "GetFollowers" ELSE "GetFollowing",
                       [username |-> username, limit |-> limit, offset |-> offset],
                       GetUsersByRelationLoad(users, username))]
    /\ UNCHANGED <<users, follows, posts, nextPostID, likes, comments, nextCommentID>>

GetRelationList(p) ==
    /\ proc[p].op \in {"GetFollowers", "GetFollowing"}
    /\ proc[p].pc = "relation"
    /\ proc' = [proc EXCEPT ![p] =
                  Call(proc[p].op, proc[p].arg,
                       Done(GetUsersByRelationList(follows, users, proc[p].loc[1],
                                                   proc[p].arg.limit, proc[p].arg.offset,
                                                   proc[p].op = "GetFollowers")))]
    /\ UNCHANGED <<users, follows, posts, nextPostID, likes, comments, nextCommentID>>

\* the direct GetFollowers
GetFollowersCall(p, username, limit, offset) ==
    /\ proc[p].pc = "idle"
    /\ proc' = [proc EXCEPT ![p] =
                  Call("GetFollowers",
                       [username |-> username, limit |-> limit, offset |-> offset],
                       GetFollowersLoad(users, username))]
    /\ UNCHANGED <<users, follows, posts, nextPostID, likes, comments, nextCommentID>>

GetFollowersRead(p) ==
    /\ At(p, "GetFollowers", "followers")
    /\ proc' = [proc EXCEPT ![p] =
                  Call("GetFollowers", proc[p].arg,
                       Done(GetFollowersList(follows, users, proc[p].loc[1],
                                             proc[p].arg.limit, proc[p].arg.offset)))]
    /\ UNCHANGED <<users, follows, posts, nextPostID, likes, comments, nextCommentID>>

\* the direct GetFollowing
GetFollowingCall(p, username, limit, offset) ==
    /\ proc[p].pc = "idle"
    /\ proc' = [proc EXCEPT ![p] =
                  Call("GetFollowing",
                       [username |-> username, limit |-> limit, offset |-> offset],
                       GetFollowingLoad(users, username))]
    /\ UNCHANGED <<users, follows, posts, nextPostID, likes, comments, nextCommentID>>

GetFollowingRead(p) ==
    /\ At(p, "GetFollowing", "following")
    /\ proc' = [proc EXCEPT ![p] =
                  Call("GetFollowing", proc[p].arg,
                       Done(GetFollowingList(follows, users, proc[p].loc[1],
                                             proc[p].arg.limit, proc[p].arg.offset)))]
    /\ UNCHANGED <<users, follows, posts, nextPostID, likes, comments, nextCommentID>>

\* the refactored LikePost (isLike) and UnlikePost
handleLikeInteraction(p, postID, userID, isLike) ==
    /\ proc[p].pc = "idle"
    /\ LET out == HandleLikeInteractionResult(likes, users, posts, postID, userID, isLike) IN
       /\ likes' = out.tbl
       /\ proc' = [proc EXCEPT ![p] =
                     Call(IF isLike THEN "LikePost" ELSE "UnlikePost",
                          [postID |-> postID, userID |-> userID], Done(out.ret))]
    /\ UNCHANGED <<users, follows, posts, nextPostID, comments, nextCommentID>>

\* the refactored FollowUser (isFollow) and UnfollowUser
handleFollowInteraction(p, userID, followerID, isFollow) ==
    /\ proc[p].pc = "idle"
    /\ LET out == HandleFollowInteractionResult(follows, users, userID, followerID, isFollow) IN
       /\ follows' = out.flw
       /\ proc' = [proc EXCEPT ![p] =
                     Call(IF isFollow THEN "FollowUser" ELSE "UnfollowUser",
                          [userID |-> userID, followerID |-> followerID], Done(out.ret))]
    /\ UNCHANGED <<users, posts, nextPostID, likes, comments, nextCommentID>>

CreatePost(p, authorID, content, imageURL) ==
    /\ proc[p].pc = "idle"
    /\ nextPostID <= MaxPosts
    /\ LET out == CreatePostResult(posts, users, nextPostID, authorID, content, imageURL) IN
       /\ posts' = out.tbl
       /\ nextPostID' = IF out.ret.err = NoErr THEN nextPostID + 1 ELSE nextPostID
       /\ proc' = [proc EXCEPT ![p] =
                     Call("CreatePost",
                          [authorID |-> authorID, content |-> content, imageURL |-> imageURL],
                          Done(out.ret))]
    /\ UNCHANGED <<users, follows, likes, comments, nextCommentID>>

GetPostByID(p, postID) ==
    /\ proc[p].pc = "idle"
    /\ proc' = [proc EXCEPT ![p] =
                  Call("GetPostByID", [postID |-> postID],
                       Done(GetPostByIDResult(posts, postID)))]
    /\ UNCHANGED <<users, follows, posts, nextPostID, likes, comments, nextCommentID>>

UpdatePostCall(p, postID, userID, content, imageURL) ==
    /\ proc[p].pc = "idle"
    /\ proc' = [proc EXCEPT ![p] =
                  Call("UpdatePost",
                       [postID |-> postID, userID |-> userID, content |-> content,
                        imageURL |-> imageURL],
                       UpdatePostLoad(posts, postID, userID, content, imageURL))]
    /\ UNCHANGED <<users, follows, posts, nextPostID, likes, comments, nextCommentID>>

UpdatePostWrite(p) ==
    /\ At(p, "UpdatePost", "update")
    /\ LET out == UpdatePostStore(posts, proc[p].loc[1]) IN
       /\ posts' = out.tbl
       /\ proc' = [proc EXCEPT ![p] = Call("UpdatePost", proc[p].arg, Done(out.ret))]
    /\ UNCHANGED <<users, follows, nextPostID, likes, comments, nextCommentID>>

DeletePostCall(p, postID, userID) ==
    /\ proc[p].pc = "idle"
    /\ proc' = [proc EXCEPT ![p] =
                  Call("DeletePost", [postID |-> postID, userID |-> userID],
                       DeletePostLoad(posts, postID, userID))]
    /\ UNCHANGED <<users, follows, posts, nextPostID, likes, comments, nextCommentID>>

DeletePostWrite(p) ==
    /\ At(p, "DeletePost", "delete")
    /\ LET out == DeletePostRemove(posts, proc[p].arg.postID) IN
       /\ posts' = out.tbl
       /\ likes' = CascadeLikes(likes, out.tbl)
       /\ comments' = CascadeComments(comments, out.tbl)
       /\ proc' = [proc EXCEPT ![p] = Call("DeletePost", proc[p].arg, Done(out.ret))]
    /\ UNCHANGED <<users, follows, nextPostID, nextCommentID>>

LikePost(p, postID, userID) ==
    /\ proc[p].pc = "idle"
    /\ LET out == LikePostResult(likes, users, posts, postID, userID) IN
       /\ likes' = out.tbl
       /\ proc' = [proc EXCEPT ![p] =
                     Call("LikePost", [postID |-> postID, userID |-> userID], Done(out.ret))]
    /\ UNCHANGED <<users, follows, posts, nextPostID, comments, nextCommentID>>

UnlikePost(p, postID, userID) ==
    /\ proc[p].pc = "idle"
    /\ LET out == UnlikePostResult(likes, postID, userID) IN
       /\ likes' = out.tbl
       /\ proc' = [proc EXCEPT ![p] =
                     Call("UnlikePost", [postID |-> postID, userID |-> userID], Done(out.ret))]
    /\ UNCHANGED <<users, follows, posts, nextPostID, comments, nextCommentID>>

AddCommentCall(p, postID, userID, content) ==
    /\ proc[p].pc = "idle"
    /\ nextCommentID <= MaxComments
    /\ proc' = [proc EXCEPT ![p] =
                  Call("AddComment",
                       [postID |-> postID, userID |-> userID, content |-> content],
                       AddCommentLoad(posts, postID, userID, content))]
    /\ UNCHANGED <<users, follows, posts, nextPostID, likes, comments, nextCommentID>>

AddCommentWrite(p) ==
    /\ At(p, "AddComment", "insert")
    /\ LET out == AddCommentStore(comments, users, posts, nextCommentID, proc[p].loc[1]) IN
       /\ comments' = out.tbl
       /\ nextCommentID' = IF out.ret.err = NoErr THEN nextCommentID + 1 ELSE nextCommentID
       /\ proc' = [proc EXCEPT ![p] = Call("AddComment", proc[p].arg, Done(out.ret))]
    /\ UNCHANGED <<users, follows, posts, nextPostID, likes>>

GetCommentsCall(p, postID, limit, offset) ==
    /\ proc[p].pc = "idle"
    /\ proc' = [proc EXCEPT ![p] =
                  Call("GetComments",
                       [postID |-> postID, limit |-> limit, offset |-> offset],
                       GetCommentsLoad(posts, postID))]
    /\ UNCHANGED <<users, follows, posts, nextPostID, likes, comments, nextCommentID>>

GetCommentsRead(p) ==
    /\ At(p, "GetComments", "list")
    /\ proc' = [proc EXCEPT ![p] =
                  Call("GetComments", proc[p].arg,
                       Done(GetCommentsList(comments, proc[p].arg.postID,
                                            proc[p].arg.limit, proc[p].arg.offset)))]
    /\ UNCHANGED <<users, follows, posts, nextPostID, likes, comments, nextCommentID>>

DeleteComment(p, commentID, userID) ==
    /\ proc[p].pc = "idle"
    /\ LET out == DeleteCommentResult(comments, commentID, userID) IN
       /\ comments' = out.tbl
       /\ proc' = [proc EXCEPT ![p] =
                     Call("DeleteComment", [commentID |-> commentID, userID |-> userID],
                          Done(out.ret))]
    /\ UNCHANGED <<users, follows, posts, nextPostID, likes, nextCommentID>>

GetPostsByUserCall(p, username, limit, offset) ==
    /\ proc[p].pc = "idle"
    /\ proc' = [proc EXCEPT ![p] =
                  Call("GetPostsByUser",
                       [username |-> username, limit |-> limit, offset |-> offset],
                       GetPostsByUserLoad(users, username))]
    /\ UNCHANGED <<users, follows, posts, nextPostID, likes, comments, nextCommentID>>

GetPostsByUserRead(p) ==
    /\ At(p, "GetPostsByUser", "posts")
    /\ proc' = [proc EXCEPT ![p] =
                  Call("GetPostsByUser", proc[p].arg,
                       Done(GetPostsByUserList(posts, proc[p].loc[1],
                                               proc[p].arg.limit, proc[p].arg.offset)))]
    /\ UNCHANGED <<users, follows, posts, nextPostID, likes, comments, nextCommentID>>

GetFeed(p, userID, limit, offset) ==
    /\ proc[p].pc = "idle"
    /\ proc' = [proc EXCEPT ![p] =
                  Call("GetFeed", [userID |-> userID, limit |-> limit, offset |-> offset],
                       Done(GetFeedResult(posts, follows, userID, limit, offset)))]
    /\ UNCHANGED <<users, follows, posts, nextPostID, likes, comments, nextCommentID>>

-----------------------------------------------------------------------------
(* HTTP requests: the router, middleware.Auth and the handler up to its    *)
(* use case call.  A request the middleware answers is recorded as a call  *)
(* of "Auth", one the handler answers before its use case as "BadRequest"; *)
(* otherwise proc[p] is the use case call, with the raw request values     *)
(* kept in its arguments.                                                  *)

Rejected(p, route, authHeader) ==
    /\ proc[p].pc = "idle"
    /\ RouterAuth(route, authHeader).status = 401
    /\ proc' = [proc EXCEPT ![p] =
                  Call("Auth", [route |-> route, authHeader |-> authHeader],
                       Done(Ret(<<"unauthorized">>, Nil)))]
    /\ UNCHANGED <<users, follows, posts, nextPostID, likes, comments, nextCommentID>>

getPostsByUser(p, authHeader, username, rawLimit, rawOffset) ==
    /\ proc[p].pc = "idle"
    /\ RouterAuth("getPostsByUser", authHeader).status = 0
    /\ proc' = [proc EXCEPT ![p] =
                  Call("GetPostsByUser",
                       [route |-> "getPostsByUser", authHeader |-> authHeader,
                        rawLimit |-> rawLimit, rawOffset |-> rawOffset,
                        username |-> username,
                        limit |-> ParseLimit(rawLimit), offset |-> ParseOffset(rawOffset)],
                       GetPostsByUserLoad(users, username))]
    /\ UNCHANGED <<users, follows, posts, nextPostID, likes, comments, nextCommentID>>

getFeed(p, authHeader, rawLimit, rawOffset) ==
    /\ proc[p].pc = "idle"
    /\ RouterAuth("getFeed", authHeader).status = 0
    /\ LET userID == RouterAuth("getFeed", authHeader).userID[1] IN
       proc' = [proc EXCEPT ![p] =
                  Call("GetFeed",
                       [route |-> "getFeed", authHeader |-> authHeader,
                        rawLimit |-> rawLimit, rawOffset |-> rawOffset,
                        userID |-> userID,
                        limit |-> ParseLimit(rawLimit), offset |-> ParseOffset(rawOffset)],
                       Done(GetFeedResult(posts, follows, userID, ParseLimit(rawLimit),
                                          ParseOffset(rawOffset))))]
    /\ UNCHANGED <<users, follows, posts, nextPostID, likes, comments, nextCommentID>>

searchUsers(p, authHeader, query, rawLimit, rawOffset) ==
    /\ proc[p].pc = "idle"
    /\ RouterAuth("searchUsers", authHeader).status = 0
    /\ proc' = [proc EXCEPT ![p] =
                  IF query = ""
                  THEN Call("BadRequest", [route |-> "searchUsers", authHeader |-> authHeader],
                            Done(Ret(<<"query parameter 'q' is required">>, Nil)))
                  ELSE Call("SearchUsers",
                            [route |-> "searchUsers", authHeader |-> authHeader,
                             rawLimit |-> rawLimit, rawOffset |-> rawOffset,
                             query |-> query,
                             limit |-> ParseLimit(rawLimit), offset |-> ParseOffset(rawOffset)],
                            Done(SearchUsersResult(users, query, ParseLimit(rawLimit),
                                                   ParseOffset(rawOffset))))]
    /\ UNCHANGED <<users, follows, posts, nextPostID, likes, comments, nextCommentID>>

\* getFollowers (isFollowers) and getFollowing
handleUserRelation(p, authHeader, username, rawLimit, rawOffset, isFollowers) ==
    /\ proc[p].pc = "idle"
    /\ RouterAuth(IF isFollowers THEN "getFollowers" ELSE "getFollowing", authHeader).status = 0
    /\ proc' = [proc EXCEPT ![p] =
                  Call(IF isFollowers THEN "GetFollowers" ELSE "GetFollowing",
                       [route |-> IF isFollowers THEN "getFollowers" ELSE "getFollowing",
                        authHeader |-> authHeader,
                        rawLimit |-> rawLimit, rawOffset |-> rawOffset,
                        username |-> username,
                        limit |-> ParseLimit(rawLimit), offset |-> ParseOffset(rawOffset)],
                       GetUsersByRelationLoad(users, username))]
    /\ UNCHANGED <<users, follows, posts, nextPostID, likes, comments, nextCommentID>>

\* getComments reads neither query value and calls GetComments(ctx, postID)
getComments(p, authHeader, postID, rawLimit, rawOffset) ==
    /\ proc[p].pc = "idle"
    /\ RouterAuth("getComments", authHeader).status = 0
    /\ proc' = [proc EXCEPT ![p] =
                  Call("GetComments",
                       [route |-> "getComments", authHeader |-> authHeader,
                        rawLimit |-> rawLimit, rawOffset |-> rawOffset,
                        postID |-> postID],
                       GetCommentsAllLoad(posts, postID))]
    /\ UNCHANGED <<users, follows, posts, nextPostID, likes, comments, nextCommentID>>

getCommentsList(p) ==
    /\ At(p, "GetComments", "listAll")
    /\ proc' = [proc EXCEPT ![p] =
                  Call("GetComments", proc[p].arg,
                       Done(GetCommentsAllList(comments, proc[p].arg.postID)))]
    /\ UNCHANGED <<users, follows, posts, nextPostID, likes, comments, nextCommentID>>

\* updatePost: the user id of the request context, the post id of the URL
\* and the decoded body go to UpdatePost
updatePost(p, authHeader, postID, content, imageURL) ==
    /\ proc[p].pc = "idle"
    /\ RouterAuth("updatePost", authHeader).status = 0
    /\ LET userID == RouterAuth("updatePost", authHeader).userID[1] IN
       proc' = [proc EXCEPT ![p] =
                  Call("UpdatePost",
                       [route |-> "updatePost", authHeader |-> authHeader,
                        postID |-> postID, userID |-> userID, content |-> content,
                        imageURL |-> imageURL],
                       UpdatePostLoad(posts, postID, userID, content, imageURL))]
    /\ UNCHANGED <<users, follows, posts, nextPostID, likes, comments, nextCommentID>>

\* deletePost: the user id of the request context and the post id of the URL
\* go to DeletePost
deletePost(p, authHeader, postID) ==
    /\ proc[p].pc = "idle"
    /\ RouterAuth("deletePost", authHeader).status = 0
    /\ LET userID == RouterAuth("deletePost", authHeader).userID[1] IN
       proc' = [proc EXCEPT ![p] =
                  Call("DeletePost",
                       [route |-> "deletePost", authHeader |-> authHeader,
                        postID |-> postID, userID |-> userID],
                       DeletePostLoad(posts, postID, userID))]
    /\ UNCHANGED <<users, follows, posts, nextPostID, likes, comments, nextCommentID>>

\* getMyProfile: the string form of the user id of the request context goes
\* to GetProfile as the username
getMyProfile(p, authHeader) ==
    /\ proc[p].pc = "idle"
    /\ RouterAuth("getMyProfile", authHeader).status = 0
    /\ LET userID == RouterAuth("getMyProfile", authHeader).userID[1] IN
       proc' = [proc EXCEPT ![p] =
                  Call("GetProfile",
                       [route |-> "getMyProfile", authHeader |-> authHeader,
                        username |-> UUIDString(userID)],
                       Done(GetProfileResult(users, UUIDString(userID))))]
    /\ UNCHANGED <<users, follows, posts, nextPostID, likes, comments, nextCommentID>>

-----------------------------------------------------------------------------
(* What callers pass *)

Names == {"Ann", ""}
Usernames == {"ann", "bob"}
Emails == {"ann@x.com", "bob@x.com"}
Passwords == {"secret1", "pw"}
ProfileNames == {Nil, Ptr("Bob"), Ptr("")}
ProfileBios == {Nil, Ptr("hi"), Ptr(Pad(MaxBioLen + 1))}
ProfileImages == {Nil, Ptr("http://img.io/a.png")}
Queries == {"", "AN"}
Limits == {1, 2}
Offsets == {0, 1}
Contents == {"hello", "", Pad(MaxPostLen + 1)}
NewContents == {"edited", "", Pad(MaxPostLen + 1)}
PostImages == {Nil, Ptr("http://img.io/p.png")}
PostIDs == 1..MaxPosts
UserIDArgs == 1..MaxID

\* two well-formed registrations
RegisterAnn(p) == RegisterCall(p, "Ann", "ann", "ann@x.com", "secret1")
RegisterBob(p) == RegisterCall(p, "Ann", "bob", "bob@x.com", "secret1")

-----------------------------------------------------------------------------
(* Specifications *)

\* Spec: every use case that returns users, one request at a time
Next ==
    \E p \in {"p1"} :
        \/ RegisterAnn(p) \/ RegisterBob(p)
        \/ RegisterUsername(p)
        \/ RegisterCreate(p)
        \/ \E u \in Usernames : GetProfile(p, u)
        \/ \E id \in IDs, n \in {Nil, Ptr("Bob")} : UpdateProfileCall(p, id, id, n, Nil, Nil)
        \/ UpdateProfileWrite(p)
        \/ \E q \in Queries, l \in Limits, o \in Offsets : SearchUsers(p, q, l, o)
        \/ \E u \in IDs, f \in IDs : FollowUser(p, u, f)
        \/ \E u \in Usernames, l \in Limits, o \in Offsets, b \in BOOLEAN :
               GetRelationCall(p, u, l, o, b)
        \/ GetRelationList(p)

Spec == Init /\ [][Next]_vars

\* SpecAccount: registration and login with every combination of well- and
\* ill-formed fields, and UpdateProfile on behalf of any requester
NextAccount ==
    \E p \in {"p1"} :
        \/ \E n \in Names, u \in Usernames, e \in Emails, pw \in Passwords :
               RegisterCall(p, n, u, e, pw)
        \/ RegisterUsername(p)
        \/ RegisterCreate(p)
        \/ \E e \in Emails, pw \in Passwords : Login(p, e, pw)
        \/ \E r \in IDs, id \in IDs, n \in {Nil, Ptr("Bob")} :
               UpdateProfileCall(p, r, id, n, Nil, Nil)
        \/ UpdateProfileWrite(p)

SpecAccount == Init /\ [][NextAccount]_vars

\* SpecProfile: UpdateProfile with every combination of given and omitted,
\* valid and invalid fields
NextProfile ==
    \E p \in {"p1"} :
        \/ RegisterAnn(p) \/ RegisterBob(p)
        \/ RegisterUsername(p)
        \/ RegisterCreate(p)
        \/ \E id \in IDs, n \in ProfileNames, b \in ProfileBios, i \in ProfileImages :
               UpdateProfileCall(p, id, id, n, b, i)
        \/ UpdateProfileWrite(p)

SpecProfile == Init /\ [][NextProfile]_vars

\* SpecRace: two concurrent requests registering and updating profiles
NextRace ==
    \E p \in Procs :
        \/ \E u \in Usernames, e \in Emails : RegisterCall(p, "Ann", u, e, "secret1")
        \/ RegisterUsername(p)
        \/ RegisterCreate(p)
        \/ \E id \in 1..2 : UpdateProfileCall(p, id, id, Ptr("Bob"), Nil, Nil)
        \/ UpdateProfileWrite(p)

SpecRace == Init /\ [][NextRace]_vars

\* SpecPost: the post service, one request at a time
NextPost ==
    \E p \in {"p1"} :
        \/ RegisterAnn(p)
        \/ RegisterUsername(p)
        \/ RegisterCreate(p)
        \/ \E a \in UserIDArgs, c \in Contents, i \in PostImages : CreatePost(p, a, c, i)
        \/ \E id \in PostIDs : GetPostByID(p, id)
        \/ \E id \in PostIDs, u \in UserIDArgs, c \in NewContents, i \in PostImages :
               UpdatePostCall(p, id, u, c, i)
        \/ UpdatePostWrite(p)
        \/ \E id \in PostIDs, u \in UserIDArgs : DeletePostCall(p, id, u)
        \/ DeletePostWrite(p)

SpecPost == Init /\ [][NextPost]_vars

\* p1 registers ann and bob, follows, unfollows and lists relations
NextFollow ==
    \E p \in {"p1"} :
        \/ RegisterAnn(p) \/ RegisterBob(p)
        \/ RegisterUsername(p)
        \/ RegisterCreate(p)
        \/ \E u \in IDs, f \in IDs : FollowUser(p, u, f)
        \/ \E u \in IDs, f \in IDs : UnfollowUser(p, u, f)
        \/ \E n \in Usernames, b \in BOOLEAN : GetRelationCall(p, n, 2, 0, b)
        \/ GetRelationList(p)

SpecFollow == Init /\ [][NextFollow]_vars

CommentContents == {"nice", "", Pad(MaxCommentLen + 1)}
CommentIDs == 1..MaxComments
Requesters == 1..2

\* p1 registers ann, who posts, likes, comments and deletes posts
NextInteract ==
    \E p \in {"p1"} :
        \/ RegisterAnn(p)
        \/ RegisterUsername(p)
        \/ RegisterCreate(p)
        \/ CreatePost(p, 1, "hello", Nil)
        \/ \E id \in PostIDs : LikePost(p, id, 1)
        \/ \E id \in PostIDs : UnlikePost(p, id, 1)
        \/ \E id \in PostIDs : AddCommentCall(p, id, 1, "nice")
        \/ AddCommentWrite(p)
        \/ \E id \in PostIDs : DeletePostCall(p, id, 1)
        \/ DeletePostWrite(p)

SpecInteract == Init /\ [][NextInteract]_vars

\* p1 registers ann and bob; ann posts; users 1 and 2 comment, read the
\* comments and delete comments
NextComment ==
    \E p \in {"p1"} :
        \/ RegisterAnn(p) \/ RegisterBob(p)
        \/ RegisterUsername(p)
        \/ RegisterCreate(p)
        \/ CreatePost(p, 1, "hello", Nil)
        \/ \E id \in PostIDs, u \in Requesters, c \in CommentContents :
              AddCommentCall(p, id, u, c)
        \/ AddCommentWrite(p)
        \/ \E id \in PostIDs, l \in Limits, o \in Offsets : GetCommentsCall(p, id, l, o)
        \/ GetCommentsRead(p)
        \/ \E c \in CommentIDs, u \in Requesters : DeleteComment(p, c, u)

SpecComment == Init /\ [][NextComment]_vars


\* two concurrent requests of ann create, read, update, comment on and
\* delete posts
NextPostRace ==
    \E p \in Procs :
        \/ RegisterAnn(p)
        \/ RegisterUsername(p)
        \/ RegisterCreate(p)
        \/ CreatePost(p, 1, "hello", Nil)
        \/ \E id \in PostIDs : GetPostByID(p, id)
        \/ \E id \in PostIDs : UpdatePostCall(p, id, 1, "edited", Nil)
        \/ UpdatePostWrite(p)
        \/ \E id \in PostIDs : DeletePostCall(p, id, 1)
        \/ DeletePostWrite(p)
        \/ \E id \in PostIDs : AddCommentCall(p, id, 1, "nice")
        \/ AddCommentWrite(p)

SpecPostRace == Init /\ [][NextPostRace]_vars


PageLimits == 0..2
PageOffsets == 0..2

\* p1 registers ann and bob, who post, follow and unfollow each other and
\* read their feeds
NextFeed ==
    \E p \in {"p1"} :
        \/ RegisterAnn(p) \/ RegisterBob(p)
        \/ RegisterUsername(p)
        \/ RegisterCreate(p)
        \/ \E a \in Requesters : CreatePost(p, a, "hello", Nil)
        \/ \E u \in Requesters, f \in Requesters : FollowUser(p, u, f)
        \/ \E u \in Requesters, f \in Requesters : UnfollowUser(p, u, f)
        \/ \E u \in Requesters, l \in PageLimits, o \in PageOffsets : GetFeed(p, u, l, o)

SpecFeed == Init /\ [][NextFeed]_vars

\* p1 registers ann and bob, who follow each other; the second user posts,
\* the first comments on the first post; p1 calls each of the six list
\* operations with every limit and offset
NextPage ==
    \E p \in {"p1"} :
        \/ RegisterAnn(p) \/ RegisterBob(p)
        \/ RegisterUsername(p)
        \/ RegisterCreate(p)
        \/ CreatePost(p, 2, "hello", Nil)
        \/ \E u \in Requesters, f \in Requesters : FollowUser(p, u, f)
        \/ AddCommentCall(p, 1, 1, "nice")
        \/ AddCommentWrite(p)
        \/ \E n \in Usernames, l \in PageLimits, o \in PageOffsets :
              GetPostsByUserCall(p, n, l, o)
        \/ GetPostsByUserRead(p)
        \/ \E u \in Requesters, l \in PageLimits, o \in PageOffsets : GetFeed(p, u, l, o)
        \/ \E id \in PostIDs, l \in PageLimits, o \in PageOffsets :
              GetCommentsCall(p, id, l, o)
        \/ GetCommentsRead(p)
        \/ \E q \in Queries, l \in PageLimits, o \in PageOffsets : SearchUsers(p, q, l, o)
        \/ \E n \in Usernames, l \in PageLimits, o \in PageOffsets, b \in BOOLEAN :
              GetRelationCall(p, n, l, o, b)
        \/ GetRelationList(p)

SpecPage == Init /\ [][NextPage]_vars

\* p1 registers ann, who updates her profile, writes posts with and without
\* an image, edits the first post and comments on it; p1 fetches the
\* profile, the posts and the comments of the first post
NextRoundTrip ==
    \E p \in {"p1"} :
        \/ RegisterAnn(p)
        \/ RegisterUsername(p)
        \/ RegisterCreate(p)
        \/ \E n \in {Nil, Ptr("Bob")}, b \in {Nil, Ptr("hi")}, i \in ProfileImages :
              UpdateProfileCall(p, 1, 1, n, b, i)
        \/ UpdateProfileWrite(p)
        \/ GetProfile(p, "ann")
        \/ \E i \in PostImages : CreatePost(p, 1, "hello", i)
        \/ \E id \in PostIDs : GetPostByID(p, id)
        \/ \E i \in PostImages : UpdatePostCall(p, 1, 1, "edited", i)
        \/ UpdatePostWrite(p)
        \/ AddCommentCall(p, 1, 1, "nice")
        \/ AddCommentWrite(p)
        \/ GetCommentsCall(p, 1, MaxComments, 0)
        \/ GetCommentsRead(p)

SpecRoundTrip == Init /\ [][NextRoundTrip]_vars

\* the Authorization headers of the requests
AuthHeaders == {"", "Basic dDE=", "Bearer ", "Bearer t1", "Bearer t22"}

\* the raw 'limit' and 'offset' query values of the requests, with the number
\* each one writes (Nil: absent or not a number)
QueryValues ==
    {[raw |-> "", num |-> Nil], [raw |-> "abc", num |-> Nil],
     [raw |-> "1x", num |-> Nil], [raw |-> "-", num |-> Nil],
     [raw |-> "0", num |-> Ptr(0)], [raw |-> "-5", num |-> Ptr(0 - 5)],
     [raw |-> "1", num |-> Ptr(1)], [raw |-> "+7", num |-> Ptr(7)],
     [raw |-> "100", num |-> Ptr(100)], [raw |-> "101", num |-> Ptr(101)],
     [raw |-> "99999999999999999999", num |-> Nil]}

RawLimits == {v.raw : v \in QueryValues}
RawOffsets == {"", "x", "-1", "0", "2"}

\* the pairs of raw values a request carries: each raw limit without an
\* offset, each raw offset without a limit, and one pair of two bad values
QueryPairs ==
    {q \in RawLimits \X RawOffsets : q[1] = "" \/ q[2] = "" \/ q = <<"101", "-1">>}

\* p1 registers ann, who posts and comments on the first post; p1 sends the
\* six list requests with every pair of raw limit and offset
NextQuery ==
    \E p \in {"p1"} :
        \/ RegisterAnn(p)
        \/ RegisterUsername(p)
        \/ RegisterCreate(p)
        \/ CreatePost(p, 1, "hello", Nil)
        \/ AddCommentCall(p, 1, 1, "nice")
        \/ AddCommentWrite(p)
        \/ \E r \in Routes, h \in AuthHeaders : Rejected(p, r, h)
        \/ \E q \in QueryPairs :
              \/ getPostsByUser(p, "", "ann", q[1], q[2])
              \/ getFeed(p, "Bearer t1", q[1], q[2])
              \/ searchUsers(p, "", "AN", q[1], q[2])
              \/ \E b \in BOOLEAN : handleUserRelation(p, "Bearer t1", "ann", q[1], q[2], b)
              \/ getComments(p, "Bearer t1", 1, q[1], q[2])
        \/ GetPostsByUserRead(p)
        \/ GetRelationList(p)
        \/ getCommentsList(p)

SpecQuery == Init /\ [][NextQuery]_vars

\* two concurrent requests update ann's profile, each giving a name, a bio,
\* both or neither
NextProfileRace ==
    \E p \in Procs :
        \/ RegisterAnn(p)
        \/ RegisterUsername(p)
        \/ RegisterCreate(p)
        \/ \E n \in {Nil, Ptr("Bob")}, b \in {Nil, Ptr("hi")} :
              UpdateProfileCall(p, 1, 1, n, b, Nil)
        \/ UpdateProfileWrite(p)

SpecProfileRace == Init /\ [][NextProfileRace]_vars

\* the post ids that requests comment on, like and delete
TargetPostIDs == 1..2

\* two concurrent requests of ann create, like, comment on and delete posts
NextOrphan ==
    \E p \in Procs :
        \/ RegisterAnn(p)
        \/ RegisterUsername(p)
        \/ RegisterCreate(p)
        \/ CreatePost(p, 1, "hello", Nil)
        \/ \E id \in TargetPostIDs : AddCommentCall(p, id, 1, "nice")
        \/ AddCommentWrite(p)
        \/ \E id \in TargetPostIDs : LikePost(p, id, 1)
        \/ \E id \in TargetPostIDs : DeletePostCall(p, id, 1)
        \/ DeletePostWrite(p)

SpecOrphan == Init /\ [][NextOrphan]_vars

\* the ordered pairs that requests follow and unfollow: ann and bob in both
\* directions, ann herself, and an id that is not stored
FollowPairs == {<<1, 2>>, <<2, 1>>, <<1, 1>>, <<1, 3>>}

\* requests of one client like and unlike ann's posts while requests of
\* another follow and unfollow
NextUndo ==
    \/ \E p \in {"p1"} :
          \/ RegisterAnn(p) \/ RegisterBob(p)
          \/ RegisterUsername(p)
          \/ RegisterCreate(p)
          \/ CreatePost(p, 1, "hello", Nil)
          \/ \E id \in TargetPostIDs, u \in Requesters : LikePost(p, id, u)
          \/ \E id \in TargetPostIDs, u \in Requesters : UnlikePost(p, id, u)
    \/ \E p \in {"p2"} :
          \/ \E e \in FollowPairs : FollowUser(p, e[1], e[2])
          \/ \E e \in FollowPairs : UnfollowUser(p, e[1], e[2])

SpecUndo == Init /\ [][NextUndo]_vars

\* ann's posts are stored, updated and deleted by use case calls that carry
\* her id, while two clients send PUT and DELETE /posts/{postID} requests
\* with every Authorization header
NextToken ==
    \E p \in Procs :
        \/ RegisterAnn(p)
        \/ RegisterUsername(p)
        \/ RegisterCreate(p)
        \/ CreatePost(p, 1, "hello", Nil)
        \/ UpdatePostCall(p, 1, 1, "edited", Nil)
        \/ UpdatePostWrite(p)
        \/ DeletePostCall(p, 1, 1)
        \/ DeletePostWrite(p)
        \/ \E r \in {"updatePost", "deletePost"}, h \in AuthHeaders : Rejected(p, r, h)
        \/ \E h \in AuthHeaders, id \in TargetPostIDs : updatePost(p, h, id, "edited", Nil)
        \/ \E h \in AuthHeaders, id \in TargetPostIDs : deletePost(p, h, id)

SpecToken == Init /\ [][NextToken]_vars

\* the usernames that registrations ask for: two well-formed ones, the
\* string forms of the placeholder id and of the first generated id, one too
\* short and one with a space
MyProfileUsernames == {"ann", "bob", UUIDString(ZeroUUID), UUIDString(1), "ab", "a b"}

\* one client registers users while another sends GET /profile and
\* GET /users/{username} requests
NextMyProfile ==
    \/ \E p \in {"p1"} :
          \/ \E u \in MyProfileUsernames, e \in Emails : RegisterCall(p, "Ann", u, e, "secret1")
          \/ RegisterUsername(p)
          \/ RegisterCreate(p)
    \/ \E p \in {"p2"} :
          \/ \E h \in AuthHeaders : Rejected(p, "getMyProfile", h)
          \/ \E h \in AuthHeaders : getMyProfile(p, h)
          \/ \E u \in MyProfileUsernames : GetProfile(p, u)

SpecMyProfile == Init /\ [][NextMyProfile]_vars

\* the usernames whose followers and followed users are listed: ann and one
\* that is never registered
RelationUsernames == {"ann", "cat"}

\* the ordered pairs followed and unfollowed: bob follows ann, ann herself
RefinePairs == {<<1, 2>>, <<1, 1>>}

\* requests served by the direct interaction service (p1) and by the
\* refactored one (p2) on the same store
NextRefine ==
    \/ \E p \in {"p1"} :
          \/ RegisterAnn(p) \/ RegisterBob(p)
          \/ RegisterUsername(p)
          \/ RegisterCreate(p)
          \/ CreatePost(p, 1, "hello", Nil)
          \/ LikePost(p, 1, 1)
          \/ UnlikePost(p, 1, 1)
          \/ \E e \in RefinePairs : FollowUser(p, e[1], e[2])
          \/ \E e \in RefinePairs : UnfollowUser(p, e[1], e[2])
          \/ \E n \in RelationUsernames : GetFollowersCall(p, n, 1, 0)
          \/ GetFollowersRead(p)
          \/ \E n \in RelationUsernames : GetFollowingCall(p, n, 1, 0)
          \/ GetFollowingRead(p)
    \/ \E p \in {"p2"} :
          \/ \E b \in BOOLEAN : handleLikeInteraction(p, 1, 1, b)
          \/ \E e \in RefinePairs, b \in BOOLEAN : handleFollowInteraction(p, e[1], e[2], b)
          \/ \E n \in RelationUsernames, b \in BOOLEAN : GetRelationCall(p, n, 1, 0, b)
          \/ GetRelationList(p)

SpecRefine == Init /\ [][NextRefine]_vars

-----------------------------------------------------------------------------
(* Properties *)

\* this step is a step of process p (a call repeated with the same arguments
\* and the same outcome in the same state is a stuttering step)
Steps(p) ==
    IF proc'[p].op # proc[p].op \/ proc'[p].pc # proc[p].pc THEN TRUE
    ELSE proc'[p].arg # proc[p].arg \/ proc'[p].ret # proc[p].ret

\* process p returns from a call of op in this step
Completes(p, op) ==
    /\ proc'[p].op = op
    /\ proc'[p].pc = "idle"
    /\ Steps(p)

EmailTaken(tbl, email) == \E i \in 1..Len(tbl) : tbl[i].email = email
UsernameTaken(tbl, username) == \E i \in 1..Len(tbl) : tbl[i].username = username

\* C1 as stated: Register with a stored email fails with ErrDuplicateEmail
\* (also when the username is stored too), with a fresh email and a stored
\* username it fails with ErrDuplicateUsername, and the users are unchanged.
C1_Original ==
    [][\A p \in Procs :
         Completes(p, "Register") =>
            LET a == proc'[p].arg
                r == proc'[p].ret
            IN  /\ EmailTaken(users, a.email) =>
                       r.err = ErrDuplicateEmail /\ users' = users
                /\ (~EmailTaken(users, a.email) /\ UsernameTaken(users, a.username)) =>
                       r.err = ErrDuplicateUsername /\ users' = users]_vars

\* C1, amended: Register with fields that pass validation fails with
\* ErrDuplicateEmail when the email is stored (also when the username is
\* stored too) and with ErrDuplicateUsername when only the username is
\* stored; with fields that fail validation it fails with "validation
\* failed" whatever is stored.  Every failing Register leaves the users
\* unchanged.
C1_RegisterDuplicates ==
    [][\A p \in Procs :
         Completes(p, "Register") =>
            LET a == proc'[p].arg
                r == proc'[p].ret
            IN  /\ (UserValidate(a) /\ EmailTaken(users, a.email)) =>
                       r.err = ErrDuplicateEmail
                /\ (UserValidate(a) /\ ~EmailTaken(users, a.email)
                      /\ UsernameTaken(users, a.username)) =>
                       r.err = ErrDuplicateUsername
                /\ ~UserValidate(a) => r.err = Wrap("validation failed", ValidationErrors)
                /\ r.err # NoErr => users' = users]_vars

\* a Register whose email belongs to one stored user and whose username
\* belongs to another has failed with ErrDuplicateEmail
C1_Witness ==
    \E p \in Procs :
        /\ proc[p].op = "Register" /\ proc[p].pc = "idle"
        /\ proc[p].ret.err = ErrDuplicateEmail
        /\ \E i, j \in 1..Len(users) :
              /\ i # j
              /\ users[i].email = proc[p].arg.email
              /\ users[j].username = proc[p].arg.username

\* C2: no two distinct stored users have the same email or the same
\* username, under every interleaving of Register and UpdateProfile.
C2_UniqueIdentity ==
    \A i, j \in 1..Len(users) :
        i # j => /\ users[i].email # users[j].email
                 /\ users[i].username # users[j].username
                 /\ users[i].id # users[j].id

\* two users are stored, an UpdateProfile has written, and a racing Register
\* was turned down by the insert
C2_Witness ==
    /\ Len(users) = 2
    /\ \E i \in 1..Len(users) : users[i].name = "Bob"
    /\ \E p \in Procs :
          /\ proc[p].op = "Register" /\ proc[p].pc = "idle"
          /\ ErrorsIs(proc[p].ret.err, PgUniqueViolation)

\* C3: a Register that passed both lookups and whose email or username has
\* been inserted by another request since then inserts nothing and returns
\* "failed to create user: ...", which is neither ErrDuplicateEmail nor
\* ErrDuplicateUsername; of two completed Registers with the same email or
\* the same username at most one succeeded.
C3_RaceLoser ==
    [][/\ \A p \in Procs :
            (At(p, "Register", "create") /\ Completes(p, "Register")
               /\ (EmailTaken(users, proc[p].arg.email)
                     \/ UsernameTaken(users, proc[p].arg.username))) =>
                /\ users' = users
                /\ proc'[p].ret.err[1] = "failed to create user"
                /\ proc'[p].ret.err \notin Sentinels
                /\ ~ErrorsIs(proc'[p].ret.err, ErrDuplicateEmail)
                /\ ~ErrorsIs(proc'[p].ret.err, ErrDuplicateUsername)
       /\ \A p, q \in Procs :
            (/\ p # q
             /\ proc'[p].op = "Register" /\ proc'[p].pc = "idle"
             /\ proc'[q].op = "Register" /\ proc'[q].pc = "idle"
             /\ proc'[p].ret.err = NoErr /\ proc'[q].ret.err = NoErr) =>
                /\ proc'[p].arg.email # proc'[q].arg.email
                /\ proc'[p].arg.username # proc'[q].arg.username]_vars

\* two Registers with the same email both passed the lookups; one inserted
\* and the other returned the generic error
C3_Witness ==
    \E p, q \in Procs :
        /\ p # q
        /\ proc[p].op = "Register" /\ proc[p].pc = "idle" /\ proc[p].ret.err = NoErr
        /\ proc[q].op = "Register" /\ proc[q].pc = "idle"
        /\ proc[q].arg.email = proc[p].arg.email
        /\ proc[q].ret.err =
              Wrap("failed to create user", Wrap("user already exists", PgUniqueViolation))

\* C4: Login returns ErrInvalidCredentials when no stored user has the email
\* and when the stored hash is not the hash of the password, never an error
\* that is or wraps ErrNotFound; with the password of a stored user it
\* returns a non-empty token and no error.  Login changes no table.
C4_Login ==
    [][\A p \in Procs :
         Completes(p, "Login") =>
            LET a == proc'[p].arg
                r == proc'[p].ret
                match == \E i \in 1..Len(users) :
                            /\ users[i].email = a.email
                            /\ users[i].password = HashPassword(a.password)
            IN  /\ ~EmailTaken(users, a.email) => r.err = ErrInvalidCredentials
                /\ (EmailTaken(users, a.email) /\ ~match) => r.err = ErrInvalidCredentials
                /\ ~ErrorsIs(r.err, ErrNotFound)
                /\ match => r.err = NoErr /\ r.val[1] # ""
                /\ r.err # NoErr => r.val[1] = ""
                /\ UNCHANGED <<users, follows, posts, nextPostID>>]_vars

\* a Login with an email no stored user has, while users are stored, has
\* returned ErrInvalidCredentials
C4_Witness ==
    \E p \in Procs :
        /\ proc[p].op = "Login" /\ proc[p].pc = "idle"
        /\ proc[p].ret.err = ErrInvalidCredentials
        /\ Len(users) > 0
        /\ ~EmailTaken(users, proc[p].arg.email)

UserReturningOps ==
    {"Register", "GetProfile", "UpdateProfile", "SearchUsers",
     "GetFollowers", "GetFollowing"}

\* C5: every user returned on success by Register, GetProfile,
\* UpdateProfile, SearchUsers, GetFollowers and GetFollowing has an empty
\* password, while every stored user has a non-empty password hash.
C5_NoPasswordReturned ==
    /\ \A i \in 1..Len(users) : users[i].password # ""
    /\ \A p \in Procs :
          (proc[p].pc = "idle" /\ proc[p].op \in UserReturningOps
             /\ proc[p].ret.err = NoErr) =>
             \A i \in 1..Len(proc[p].ret.val) : proc[p].ret.val[i].password = ""

\* GetFollowers has returned a user that is stored with its hash
C5_Witness ==
    \E p \in Procs :
        /\ proc[p].op = "GetFollowers" /\ proc[p].pc = "idle"
        /\ proc[p].ret.err = NoErr
        /\ Len(proc[p].ret.val) = 1
        /\ \E i \in 1..Len(users) :
              /\ users[i].id = proc[p].ret.val[1].id
              /\ users[i].password = HashPassword("secret1")

PostStored(id) == id \in PostIDsOf(posts)

\* C6: UpdatePost by a requester who is not the stored post's author fails
\* with ErrUnauthorized and leaves the posts unchanged; for an id that is
\* not stored it fails with ErrNotFound.  Whenever a stored post changes,
\* the step is one of an UpdatePost whose requester is the post's author,
\* and the author of a post never changes.
C6_UpdatePostOwnership ==
    [][/\ \A p \in Procs :
            Completes(p, "UpdatePost") =>
               LET a == proc'[p].arg
                   r == proc'[p].ret
               IN  /\ (PostStored(a.postID) /\ PostByID(posts, a.postID).authorID # a.userID) =>
                          r.err = ErrUnauthorized /\ posts' = posts
                   /\ ~PostStored(a.postID) => r.err = ErrNotFound /\ posts' = posts
       /\ \A row \in posts :
            (row.id \in PostIDsOf(posts') /\ PostByID(posts', row.id) # row) =>
               /\ PostByID(posts', row.id).authorID = row.authorID
               /\ \E p \in Procs :
                     /\ proc'[p].op = "UpdatePost" /\ Steps(p)
                     /\ proc'[p].arg.postID = row.id
                     /\ proc'[p].arg.userID = row.authorID]_vars

\* an UpdatePost with new content by a requester other than the author of
\* the stored post has returned ErrUnauthorized
C6_Witness ==
    \E p \in Procs :
        /\ proc[p].op = "UpdatePost" /\ proc[p].pc = "idle"
        /\ proc[p].ret.err = ErrUnauthorized
        /\ PostStored(proc[p].arg.postID)
        /\ PostByID(posts, proc[p].arg.postID).authorID # proc[p].arg.userID
        /\ PostByID(posts, proc[p].arg.postID).content = "hello"
        /\ proc[p].arg.content = "edited"

\* C7: DeletePost by a requester who is not the stored post's author fails
\* with ErrUnauthorized and the posts are unchanged; for an id that is not
\* stored it fails with ErrNotFound; by the author it removes exactly that
\* post.  A removed post never comes back, and GetPostByID fails with
\* ErrNotFound for every id that is not stored.
C7_DeletePost ==
    [][/\ \A p \in Procs :
            Completes(p, "DeletePost") =>
               LET a == proc'[p].arg
                   r == proc'[p].ret
               IN  /\ (PostStored(a.postID) /\ PostByID(posts, a.postID).authorID # a.userID) =>
                          r.err = ErrUnauthorized /\ posts' = posts
                   /\ ~PostStored(a.postID) => r.err = ErrNotFound /\ posts' = posts
                   /\ (PostStored(a.postID) /\ PostByID(posts, a.postID).authorID = a.userID) =>
                          /\ r.err = NoErr
                          /\ posts' = posts \ {PostByID(posts, a.postID)}
                          /\ a.postID \notin PostIDsOf(posts')
       /\ \A p \in Procs :
            Completes(p, "GetPostByID") =>
               IF PostStored(proc'[p].arg.postID)
               THEN proc'[p].ret = Ret(NoErr, Ptr(PostByID(posts, proc'[p].arg.postID)))
               ELSE proc'[p].ret.err = ErrNotFound
       /\ \A id \in 1..(nextPostID - 1) :
            ~PostStored(id) => id \notin PostIDsOf(posts')]_vars

\* a GetPostByID for the id of a post that was created and then deleted has
\* returned ErrNotFound
C7_Witness ==
    \E p \in Procs :
        /\ proc[p].op = "GetPostByID" /\ proc[p].pc = "idle"
        /\ proc[p].ret.err = ErrNotFound
        /\ proc[p].arg.postID < nextPostID
        /\ ~PostStored(proc[p].arg.postID)

Given(field, old) == IF field # Nil THEN field ELSE old

\* C9: a successful UpdateProfile sets each of name, bio and image URL to
\* the value passed when one is passed and leaves it as stored when nil is
\* passed; id, username, email and password hash of the user, and every
\* other user, are as before.  An UpdateProfile that fails with ErrNotFound
\* or fails validation, and every step of an UpdateProfile before its
\* write, leaves the users unchanged.
C9_UpdateProfileFrame ==
    [][\A p \in Procs :
         (proc'[p].op = "UpdateProfile" /\ Steps(p)) =>
            LET a == proc'[p].arg
                r == proc'[p].ret
            IN  IF proc'[p].pc = "idle" /\ r.err = NoErr
                THEN /\ Len(users') = Len(users)
                     /\ \E i \in 1..Len(users) : users[i].id = a.userID
                     /\ \A i \in 1..Len(users) :
                           IF users[i].id = a.userID
                           THEN /\ users'[i].name = Given(a.name, Ptr(users[i].name))[1]
                                /\ users'[i].bio = Given(a.bio, users[i].bio)
                                /\ users'[i].imageURL = Given(a.imageURL, users[i].imageURL)
                                /\ users'[i].id = users[i].id
                                /\ users'[i].username = users[i].username
                                /\ users'[i].email = users[i].email
                                /\ users'[i].password = users[i].password
                           ELSE users'[i] = users[i]
                ELSE /\ users' = users
                     /\ (proc'[p].pc = "idle" /\ a.userID \notin UserIDsOf(users)) =>
                            r.err = ErrNotFound]_vars

\* an UpdateProfile passing a bio and no name has succeeded for a user whose
\* stored name was given by an earlier UpdateProfile
C9_Witness ==
    \E p \in Procs :
        /\ proc[p].op = "UpdateProfile" /\ proc[p].pc = "idle"
        /\ proc[p].ret.err = NoErr
        /\ proc[p].arg.name = Nil
        /\ proc[p].arg.bio = Ptr("hi")
        /\ \E i \in 1..Len(users) :
              /\ users[i].id = proc[p].arg.userID
              /\ users[i].name = "Bob"
              /\ users[i].bio = Ptr("hi")

\* C10: a successful UpdatePost sets the stored content to the given
\* content, sets the image URL to the one passed when one is passed and
\* leaves it as stored otherwise, and leaves id, author and every other post
\* as before.  An UpdatePost whose content is empty or longer than
\* MaxPostLen fails and writes nothing; by the author of a stored post it
\* fails with "validation failed".
C10_UpdatePostFrame ==
    [][\A p \in Procs :
         Completes(p, "UpdatePost") =>
            LET a == proc'[p].arg
                r == proc'[p].ret
                invalid == Len(a.content) = 0 \/ Len(a.content) > MaxPostLen
            IN  /\ r.err = NoErr =>
                      /\ PostStored(a.postID)
                      /\ LET old == PostByID(posts, a.postID) IN
                            /\ old.authorID = a.userID
                            /\ posts' = (posts \ {old}) \cup
                                  {[id |-> old.id, authorID |-> old.authorID,
                                    content |-> a.content,
                                    imageURL |-> Given(a.imageURL, old.imageURL)]}
                /\ invalid => r.err # NoErr /\ posts' = posts
                /\ (invalid /\ PostStored(a.postID)
                      /\ PostByID(posts, a.postID).authorID = a.userID) =>
                      r.err = Wrap("validation failed", ValidationErrors)]_vars

\* an UpdatePost passing no image URL has succeeded on a post stored with one
C10_Witness ==
    \E p \in Procs :
        /\ proc[p].op = "UpdatePost" /\ proc[p].pc = "idle"
        /\ proc[p].ret.err = NoErr
        /\ proc[p].arg.imageURL = Nil
        /\ PostStored(proc[p].arg.postID)
        /\ PostByID(posts, proc[p].arg.postID).content = "edited"
        /\ PostByID(posts, proc[p].arg.postID).imageURL # Nil

SelfFollowError == <<"you cannot follow yourself">>

\* C11: FollowUser(userID, followerID) with userID = followerID fails with
\* "you cannot follow yourself" in one step that changes no table, whatever
\* is stored; the follow table never holds an edge from a user to itself.
C11_NoSelfFollow ==
    [][/\ \A p \in Procs :
            (Completes(p, "FollowUser")
               /\ proc'[p].arg.userID = proc'[p].arg.followerID) =>
                /\ proc'[p].ret.err = SelfFollowError
                /\ proc[p].pc = "idle"
                /\ UNCHANGED <<users, follows, posts, likes, comments>>
       /\ \A i \in 1..Len(follows') : follows'[i][1] # follows'[i][2]]_vars

\* a stored user, with follow edges stored, was refused to follow itself
C11_Witness ==
    \E p \in Procs :
        /\ proc[p].op = "FollowUser" /\ proc[p].pc = "idle"
        /\ proc[p].arg.userID = proc[p].arg.followerID
        /\ proc[p].arg.userID \in UserIDsOf(users)
        /\ proc[p].ret.err = SelfFollowError
        /\ Len(follows) > 0

HasLike(userID, postID) == LikeRepoExists(likes, userID, postID)

\* C12: LikePost for a (user, post) pair that already has a like row returns
\* no error, and the likes table is as before, with one row for the pair.
C12_DuplicateLikeAbsorbed ==
    [][\A p \in Procs :
         (Completes(p, "LikePost")
            /\ HasLike(proc'[p].arg.userID, proc'[p].arg.postID)) =>
             /\ proc'[p].ret.err = NoErr
             /\ likes' = likes]_vars

HasEdge(userID, followerID) == FollowRepoExists(follows, userID, followerID)

\* C13: FollowUser(u, f) with u # f, called when the edge (u, f) is stored,
\* returns no error, and the follow table is as before, with one edge for
\* the ordered pair.
C13_DuplicateFollowTolerated ==
    [][\A p \in Procs :
         (Completes(p, "FollowUser")
            /\ proc'[p].arg.userID # proc'[p].arg.followerID
            /\ HasEdge(proc'[p].arg.userID, proc'[p].arg.followerID)) =>
             /\ proc'[p].ret.err = NoErr
             /\ follows' = follows]_vars

\* C14: when DeletePost succeeds for a post, no stored comment and no stored
\* like references it afterwards: the comments read by its id are none, for
\* every page, and the like-existence check is false for every user; the
\* comments and likes of the other posts are as before.  Every stored
\* comment and like references a stored post.
C14_DeleteCascades ==
    [][/\ \A p \in Procs :
            (Completes(p, "DeletePost") /\ proc'[p].ret.err = NoErr) =>
               LET id == proc'[p].arg.postID IN
                /\ \A c \in comments' : c.postID # id
                /\ \A l \in likes' : l.postID # id
                /\ \A lim \in 0..MaxComments, off \in 0..MaxComments :
                      CommentRepoGetByPostID(comments', id, lim, off) = <<>>
                /\ \A u \in IDs : ~LikeRepoExists(likes', u, id)
                /\ comments' = {c \in comments : c.postID # id}
                /\ likes' = {l \in likes : l.postID # id}
       /\ \A c \in comments' : c.postID \in PostIDsOf(posts')
       /\ \A l \in likes' : l.postID \in PostIDsOf(posts')]_vars

\* the first post, which had been commented on, was deleted; the second post
\* keeps its comment and its like
C14_Witness ==
    \E p \in Procs :
        /\ proc[p].op = "DeletePost" /\ proc[p].pc = "idle"
        /\ proc[p].ret.err = NoErr
        /\ proc[p].arg.postID = 1
        /\ nextCommentID = 3
        /\ comments = {[id |-> 2, postID |-> 2, authorID |-> 1, content |-> "nice"]}
        /\ likes = {[userID |-> 1, postID |-> 2]}

\* C15: AddComment for a post that is not stored fails with ErrNotFound,
\* also when the content is invalid; for a stored post and content that is
\* empty or longer than MaxCommentLen it fails with "validation failed".
\* A failing AddComment leaves the comments unchanged; a successful one adds
\* exactly one comment, with the given post id, author id and content.
C15_AddComment ==
    [][\A p \in Procs :
         (proc'[p].op = "AddComment" /\ Steps(p)) =>
            LET a == proc'[p].arg
                r == proc'[p].ret
                invalid == Len(a.content) = 0 \/ Len(a.content) > MaxCommentLen
            IN  IF proc'[p].pc = "idle" /\ r.err = NoErr
                THEN \E c \in comments' :
                        /\ c \notin comments
                        /\ c.id \notin CommentIDsOf(comments)
                        /\ c.postID = a.postID
                        /\ c.authorID = a.userID
                        /\ c.content = a.content
                        /\ comments' = comments \cup {c}
                        /\ r.val = Ptr(c)
                        /\ ~invalid
                ELSE /\ comments' = comments
                     /\ (proc[p].pc = "idle" /\ ~PostStored(a.postID)) =>
                            proc'[p].pc = "idle" /\ r.err = ErrNotFound
                     /\ (proc[p].pc = "idle" /\ PostStored(a.postID) /\ invalid) =>
                            /\ proc'[p].pc = "idle"
                            /\ r.err = Wrap("validation failed", ValidationErrors)]_vars

\* an AddComment with empty content for a post that is not stored has
\* returned ErrNotFound, while another post has a comment
C15_Witness ==
    \E p \in Procs :
        /\ proc[p].op = "AddComment" /\ proc[p].pc = "idle"
        /\ proc[p].ret.err = ErrNotFound
        /\ proc[p].arg.content = ""
        /\ ~PostStored(proc[p].arg.postID)
        /\ comments # {}

\* C16: DeleteComment for a stored comment removes exactly that comment and
\* returns no error whatever requester id is passed, the comment's author or
\* not; for an id no stored comment has it fails with ErrNotFound and
\* changes no table.
C16_DeleteCommentAnyRequester ==
    [][\A p \in Procs :
         Completes(p, "DeleteComment") =>
            LET a == proc'[p].arg
                r == proc'[p].ret
            IN  IF a.commentID \in CommentIDsOf(comments)
                THEN /\ r.err = NoErr
                     /\ comments' = {c \in comments : c.id # a.commentID}
                     /\ Cardinality(comments') = Cardinality(comments) - 1
                ELSE /\ r.err = ErrNotFound
                     /\ UNCHANGED <<users, follows, posts, likes, comments>>]_vars

\* user 2, who is not registered and so wrote no comment, has deleted
\* comment 1
C16_Witness ==
    \E p \in Procs :
        /\ proc[p].op = "DeleteComment" /\ proc[p].pc = "idle"
        /\ proc[p].ret.err = NoErr
        /\ proc[p].arg.commentID = 1
        /\ proc[p].arg.userID = 2
        /\ UserIDsOf(users) = {1}
        /\ 1 \notin CommentIDsOf(comments)

PostKeyedOps == {"GetPostByID", "UpdatePost", "DeletePost", "AddComment", "GetComments"}
UsernameKeyedOps == {"GetPostsByUser", "GetProfile", "GetFollowers", "GetFollowing"}

\* the entity the call of process p needs is not stored
EntityAbsent(p) ==
    LET a == proc'[p].arg IN
    IF proc'[p].op \in PostKeyedOps THEN ~PostStored(a.postID)
    ELSE IF proc'[p].op \in UsernameKeyedOps THEN ~UsernameTaken(users, a.username)
    ELSE IF proc'[p].op = "UpdateProfile" THEN a.userID \notin UserIDsOf(users)
    ELSE IF proc'[p].op = "DeleteComment" THEN a.commentID \notin CommentIDsOf(comments)
    ELSE FALSE

\* C17: whenever GetPostByID, GetPostsByUser, UpdatePost, DeletePost,
\* GetProfile, UpdateProfile, AddComment, GetComments, DeleteComment,
\* GetFollowers or GetFollowing returns an error in a step in which the
\* entity it needs is not stored, at its lookup or at its write, the error
\* is ErrNotFound itself, with no text around it.
C17_NotFoundVerbatim ==
    [][\A p \in Procs :
         (/\ proc'[p].op \in PostKeyedOps \cup UsernameKeyedOps
                                \cup {"UpdateProfile", "DeleteComment"}
          /\ proc'[p].pc = "idle" /\ Steps(p)
          /\ proc'[p].ret.err # NoErr
          /\ EntityAbsent(p)) =>
             proc'[p].ret.err = ErrNotFound]_vars

\* the stored posts whose author is followed by user u
FollowedPosts(u) == {post \in posts : HasEdge(post.authorID, u)}

\* C18: GetFeed(u, limit, offset) returns no error and the posts of the
\* authors u follows, newest first, cut to the page: each returned post is a
\* stored post whose author has an edge with follower u, none is written by
\* u, the posts are in strictly descending order of creation, the post at
\* position i is the one with offset + i - 1 newer posts of followed
\* authors, and the result stops only at the limit or at the last such post.
C18_Feed ==
    [][\A p \in Procs :
         Completes(p, "GetFeed") =>
            LET a == proc'[p].arg
                r == proc'[p].ret
                n == Cardinality(FollowedPosts(a.userID))
                rest == IF n > a.offset THEN n - a.offset ELSE 0
            IN  /\ r.err = NoErr
                /\ Len(r.val) = IF rest < a.limit THEN rest ELSE a.limit
                /\ \A i \in 1..Len(r.val) :
                      /\ r.val[i] \in posts
                      /\ HasEdge(r.val[i].authorID, a.userID)
                      /\ r.val[i].authorID # a.userID
                      /\ Cardinality({post \in FollowedPosts(a.userID) :
                                         post.id > r.val[i].id}) = a.offset + i - 1
                /\ \A i \in 1..(Len(r.val) - 1) : r.val[i].id > r.val[i + 1].id
                /\ UNCHANGED <<users, follows, posts, likes, comments>>]_vars

\* ann follows bob and not the other way round; bob wrote two posts; the
\* second page of ann's feed, of one post, is bob's first post
C18_Witness ==
    \E p \in Procs :
        /\ proc[p].op = "GetFeed" /\ proc[p].pc = "idle"
        /\ proc[p].arg = [userID |-> 1, limit |-> 1, offset |-> 1]
        /\ EdgesOf(follows) = {<<2, 1>>}
        /\ Cardinality(posts) = 2
        /\ Len(proc[p].ret.val) = 1
        /\ proc[p].ret.val[1].id = 1
        /\ proc[p].ret.val[1].authorID = 2

\* the paginated list operations
ListOps ==
    {"GetPostsByUser", "GetFeed", "GetComments", "SearchUsers", "GetFollowers",
     "GetFollowing"}

IDOfUsername(username) ==
    {users[i].id : i \in {j \in 1..Len(users) : users[j].username = username}}

\* the number of stored rows that match a list call, whatever the page
MatchingRows(op, a) ==
    CASE op = "GetPostsByUser" ->
            Cardinality({post \in posts : post.authorID \in IDOfUsername(a.username)})
      [] op = "GetFeed" -> Cardinality(FollowedPosts(a.userID))
      [] op = "GetComments" -> Cardinality({c \in comments : c.postID = a.postID})
      [] op = "SearchUsers" ->
            Cardinality({i \in 1..Len(users) :
                            \/ ILike(users[i].name, "%" \o a.query \o "%")
                            \/ ILike(users[i].username, "%" \o a.query \o "%")})
      [] op = "GetFollowers" ->
            Cardinality({e \in EdgesOf(follows) : e[1] \in IDOfUsername(a.username)})
      [] op = "GetFollowing" ->
            Cardinality({e \in EdgesOf(follows) : e[2] \in IDOfUsername(a.username)})

\* the user or the post that a list call looks up first is stored
ParentStored(op, a) ==
    CASE op \in {"GetPostsByUser", "GetFollowers", "GetFollowing"} ->
            UsernameTaken(users, a.username)
      [] op = "GetComments" -> PostStored(a.postID)
      [] op \in {"GetFeed", "SearchUsers"} -> TRUE

UserIDsIn(list) == {list[i].id : i \in 1..Len(list)}

\* f is among the followers of u, as FollowRepo.GetFollowers lists them
IsFollowerOf(flw, tbl, f, u) == f \in UserIDsIn(FollowersOf(flw, tbl, u))

\* u is among the users f is following, as FollowRepo.GetFollowing lists them
IsFollowedBy(flw, tbl, u, f) == u \in UserIDsIn(FollowingOf(flw, tbl, f))

\* C20: after FollowUser(u, f) succeeds with u # f, f is listed among the
\* followers of u and u among the users f is following; after UnfollowUser(u, f)
\* succeeds neither is; and in every reachable state, for all ids u and f,
\* f is listed among the followers of u exactly when u is listed among the
\* users f is following.
C20_FollowSymmetry ==
    /\ [](\A u \in IDs, f \in IDs :
             IsFollowerOf(follows, users, f, u) <=> IsFollowedBy(follows, users, u, f))
    /\ [][\A p \in Procs :
            LET a == proc'[p].arg IN
            /\ (Completes(p, "FollowUser") /\ proc'[p].ret.err = NoErr
                  /\ a.userID # a.followerID) =>
                  /\ IsFollowerOf(follows', users', a.followerID, a.userID)
                  /\ IsFollowedBy(follows', users', a.userID, a.followerID)
            /\ (Completes(p, "UnfollowUser") /\ proc'[p].ret.err = NoErr) =>
                  /\ IsFollowerOf(follows, users, a.followerID, a.userID)
                  /\ ~IsFollowerOf(follows', users', a.followerID, a.userID)
                  /\ ~IsFollowedBy(follows', users', a.userID, a.followerID)]_vars

\* ann and bob followed each other and UnfollowUser(bob, ann) has succeeded:
\* bob still follows ann
C20_Witness ==
    \E p \in Procs :
        /\ proc[p].op = "UnfollowUser" /\ proc[p].pc = "idle"
        /\ proc[p].arg = [userID |-> 2, followerID |-> 1]
        /\ proc[p].ret.err = NoErr
        /\ EdgesOf(follows) = {<<1, 2>>}
        /\ IsFollowerOf(follows, users, 2, 1)
        /\ ~IsFollowerOf(follows, users, 1, 2)

\* the comment with this id as CommentRepo.GetByPostID lists it with its post
\* (the repository has no lookup of a comment by its id)
FetchComment(ctbl, postID, id) ==
    LET list == CommentRepoGetByPostID(ctbl, postID, Cardinality(ctbl), 0)
    IN  {list[i] : i \in {j \in 1..Len(list) : list[j].id = id}}

\* process p returns from a successful call of op in this step
Succeeds(p, op) == Completes(p, op) /\ proc'[p].ret.err = NoErr

\* C21: a user, post or comment fetched by its id right after it was created
\* equals what was created in every field but the generated id (for a user:
\* the name, username and email given to Register, the hash of the password,
\* no bio and no image; the use case returns it with the password cleared);
\* fetched right after an update it carries the updated fields (the fields
\* given to UpdateProfile and UpdatePost) and is what the update returned;
\* a step that is no successful create or update of an entity leaves what a
\* fetch by its id returns unchanged, and the use cases' fetches return the
\* stored row.
C21_RoundTrip ==
    [][/\ \A p \in Procs :
            LET a == proc'[p].arg
                r == proc'[p].ret
            IN
            /\ Succeeds(p, "Register") =>
                  /\ UserRepoGetByID(users', r.val[1].id) =
                        Ret(NoErr, Ptr([id |-> r.val[1].id, name |-> a.name,
                                        username |-> a.username, email |-> a.email,
                                        password |-> HashPassword(a.password),
                                        bio |-> Nil, imageURL |-> Nil]))
                  /\ UserRepoGetByID(users, r.val[1].id).err = ErrNotFound
                  /\ GetProfileResult(users', a.username) = r
            /\ Succeeds(p, "UpdateProfile") =>
                  LET got == UserRepoGetByID(users', a.userID)
                      old == UserRepoGetByID(users, a.userID).val[1]
                  IN  /\ got.err = NoErr
                      /\ ClearPassword(got.val[1]) = r.val[1]
                      /\ a.name # Nil => got.val[1].name = a.name[1]
                      /\ a.bio # Nil => got.val[1].bio = a.bio
                      /\ a.imageURL # Nil => got.val[1].imageURL = a.imageURL
                      /\ got.val[1].username = old.username
                      /\ got.val[1].email = old.email
                      /\ got.val[1].password = old.password
            /\ Succeeds(p, "CreatePost") =>
                  /\ PostRepoGetByID(posts', r.val[1].id) =
                        Ret(NoErr, Ptr([id |-> r.val[1].id, authorID |-> a.authorID,
                                        content |-> a.content, imageURL |-> a.imageURL]))
                  /\ PostRepoGetByID(posts, r.val[1].id).err = ErrNotFound
                  /\ GetPostByIDResult(posts', r.val[1].id) = r
            /\ Succeeds(p, "UpdatePost") =>
                  LET got == PostRepoGetByID(posts', a.postID)
                      old == PostRepoGetByID(posts, a.postID).val[1]
                  IN  /\ got = r
                      /\ got.val[1].content = a.content
                      /\ a.imageURL # Nil => got.val[1].imageURL = a.imageURL
                      /\ got.val[1].authorID = old.authorID
            /\ Succeeds(p, "AddComment") =>
                  /\ FetchComment(comments', a.postID, r.val[1].id) =
                        {[id |-> r.val[1].id, postID |-> a.postID,
                          authorID |-> a.userID, content |-> a.content]}
                  /\ FetchComment(comments, a.postID, r.val[1].id) = {}
            /\ Succeeds(p, "GetProfile") =>
                  \E i \in 1..Len(users) :
                     users[i].username = a.username /\ r.val[1] = ClearPassword(users[i])
            /\ Succeeds(p, "GetPostByID") =>
                  r.val[1] \in posts /\ r.val[1].id = a.postID
            /\ Succeeds(p, "GetComments") =>
                  \A c \in comments :
                     c.postID = a.postID => \E i \in 1..Len(r.val) : r.val[i] = c
       /\ \A id \in 1..MaxID :
               UserRepoGetByID(users', id) # UserRepoGetByID(users, id) =>
                  \E q \in Procs :
                     \/ Succeeds(q, "Register") /\ proc'[q].ret.val[1].id = id
                     \/ Succeeds(q, "UpdateProfile") /\ proc'[q].arg.userID = id
       /\ \A id \in PostIDs :
               PostRepoGetByID(posts', id) # PostRepoGetByID(posts, id) =>
                  \E q \in Procs :
                     \/ Succeeds(q, "CreatePost") /\ proc'[q].ret.val[1].id = id
                     \/ Succeeds(q, "UpdatePost") /\ proc'[q].arg.postID = id
       /\ comments' # comments => \E q \in Procs : Succeeds(q, "AddComment")]_vars

\* ann's first post was created with an image and then edited without one;
\* the last fetch of it returned the edited content and the image
C21_Witness ==
    \E p \in Procs :
        /\ proc[p].op = "GetPostByID" /\ proc[p].pc = "idle"
        /\ proc[p].arg.postID = 1
        /\ proc[p].ret = Ret(NoErr, Ptr([id |-> 1, authorID |-> 1, content |-> "edited",
                                         imageURL |-> Ptr("http://img.io/p.png")]))
        /\ Len(users) = 1 /\ users[1].bio = Ptr("hi") /\ users[1].name = "Bob"
        /\ users[1].password = HashPassword("secret1")
        /\ \E c \in comments : c.postID = 1 /\ c.content = "nice"

\* the status the sentinel err stands for, 0 for every other error
SentinelStatus(err) ==
    IF err = ErrNotFound THEN 404
    ELSE IF err = ErrUnauthorized THEN 403
    ELSE IF err \in {ErrDuplicateEmail, ErrDuplicateUsername} THEN 409
    ELSE IF err = ErrInvalidCredentials THEN 401
    ELSE 0

\* C22: whenever a use case has returned an error to its handler, the handler
\* answers 404 for NotFound, 403 for Unauthorized, 409 for DuplicateEmail and
\* DuplicateUsername, 401 for InvalidCredentials, and for every other error
\* a generic failure status (400 or 500) that is none of these.
C22_SentinelStatus ==
    \A p \in Procs :
        (proc[p].pc = "idle" /\ proc[p].op # "none" /\ proc[p].ret.err # NoErr) =>
            LET err == proc[p].ret.err
                status == ErrorStatus(proc[p].op, err)
            IN  IF SentinelStatus(err) # 0 THEN status = SentinelStatus(err)
                ELSE status \in {400, 500}

\* the number a raw query value writes, Nil when it is absent or no number
NumberOf(raw) == (CHOOSE v \in QueryValues : v.raw = raw).num

\* C23: every list request passes to its use case a limit between 1 and 100
\* (20 when the raw value is absent, not a number, zero or negative; 100
\* when it exceeds 100; the value itself otherwise) and an offset that is
\* never negative (0 when the raw value is absent, not a number or
\* negative).
C23_PageParams ==
    \A p \in Procs :
        (proc[p].op \in ListOps /\ "rawLimit" \in DOMAIN proc[p].arg) =>
            LET a == proc[p].arg
                n == NumberOf(a.rawLimit)
            IN  /\ {"limit", "offset"} \subseteq DOMAIN a
                /\ a.limit \in 1..MaxLimit
                /\ (n = Nil \/ n[1] <= 0) => a.limit = DefaultLimit
                /\ (n # Nil /\ n[1] > MaxLimit) => a.limit = MaxLimit
                /\ (n # Nil /\ n[1] \in 1..MaxLimit) => a.limit = n[1]
                /\ a.offset >= 0
                /\ (a.rawOffset \in {"", "x", "-1"}) => a.offset = DefaultOffset
                /\ (a.rawOffset = "2") => a.offset = 2

\* the endpoints the README marks '(authenticated)', by handler name
ReadmeAuthenticated ==
    {"getMyProfile", "updateProfile", "followUser", "unfollowUser", "createPost",
     "getFeed", "updatePost", "deletePost", "likePost", "unlikePost", "addComment",
     "deleteComment"}

\* C24: a request without Authorization header is answered 401 by the
\* middleware only on an endpoint the README marks '(authenticated)' (every
\* other endpoint, among them getFollowers, getFollowing and getComments,
\* serves it), and no handler of a marked endpoint runs for such a request.
C24_ReadmeRoutes ==
    \A p \in Procs :
        /\ (proc[p].op = "Auth" /\ proc[p].arg.authHeader = "") =>
              proc[p].arg.route \in ReadmeAuthenticated
        /\ (proc[p].op \notin {"none", "Auth"} /\ "route" \in DOMAIN proc[p].arg
               /\ proc[p].arg.route \in ReadmeAuthenticated) =>
              proc[p].arg.authHeader # ""

\* C25: also when UpdateProfile calls for the same user interleave, the write
\* of a successful call leaves each field it was given as nil at its stored
\* value (so that no update of the other call is overwritten with a value
\* read earlier) and sets each field it was given to the value given.
C25_NoLostUpdate ==
    [][\A p \in Procs :
         (Completes(p, "UpdateProfile") /\ proc'[p].ret.err = NoErr) =>
            LET a == proc'[p].arg IN
            \A i \in 1..Len(users) :
               users[i].id = a.userID =>
                  /\ users'[i].name = Given(a.name, Ptr(users[i].name))[1]
                  /\ users'[i].bio = Given(a.bio, users[i].bio)
                  /\ users'[i].imageURL = Given(a.imageURL, users[i].imageURL)]_vars

\* C26: every stored comment and every stored like refers to a stored post,
\* under any interleaving of AddComment, LikePost and DeletePost: an AddComment
\* that found the post and inserts after a concurrent DeletePost removed it
\* returns an error and stores no comment, and a LikePost for a post that is
\* not stored returns an error and stores no like
C26_NoOrphans ==
    /\ [](/\ \A c \in comments : c.postID \in PostIDsOf(posts)
          /\ \A l \in likes : l.postID \in PostIDsOf(posts))
    /\ [][\A p \in Procs :
            /\ (Completes(p, "AddComment") /\ At(p, "AddComment", "insert")
                   /\ ~PostStored(proc[p].arg.postID)) =>
                  /\ proc'[p].ret.err # NoErr
                  /\ comments' = comments
            /\ (Completes(p, "LikePost") /\ ~PostStored(proc'[p].arg.postID)) =>
                  /\ proc'[p].ret.err # NoErr
                  /\ likes' = likes]_vars

\* a post that had a comment and a like is gone, and an AddComment that had
\* found it has returned an error from its insert
C26_Witness ==
    /\ posts = {}
    /\ nextPostID > 1
    /\ nextCommentID > 1
    /\ \E p \in Procs :
          /\ proc[p].op = "AddComment"
          /\ proc[p].pc = "idle"
          /\ ErrorsIs(proc[p].ret.err, PgForeignKeyViolation)
    /\ \E q \in Procs :
          /\ proc[q].op = "DeletePost"
          /\ proc[q].pc = "idle"
          /\ proc[q].ret.err = NoErr

\* C27: UnlikePost for a (user, post) pair without a like row returns
\* "failed to unlike post: like not found", and UnfollowUser for an ordered
\* pair without a follow edge returns "failed to unfollow user: follow
\* relationship not found"; neither error is the NotFound sentinel, and the
\* likes and the follow edges stay as they were.  UnfollowUser(id, id) is not
\* answered with the self-follow error and takes this same path.
C27_UndoMissing ==
    [][\A p \in Procs :
         /\ (Completes(p, "UnlikePost")
               /\ ~HasLike(proc'[p].arg.userID, proc'[p].arg.postID)) =>
               /\ proc'[p].ret.err = Wrap("failed to unlike post", <<"like not found">>)
               /\ ~ErrorsIs(proc'[p].ret.err, ErrNotFound)
               /\ likes' = likes
               /\ follows' = follows
         /\ (Completes(p, "UnfollowUser")
               /\ ~HasEdge(proc'[p].arg.userID, proc'[p].arg.followerID)) =>
               /\ proc'[p].ret.err =
                     Wrap("failed to unfollow user", <<"follow relationship not found">>)
               /\ ~ErrorsIs(proc'[p].ret.err, ErrNotFound)
               /\ proc'[p].ret.err # SelfFollowError
               /\ follows' = follows
               /\ likes' = likes]_vars

\* with a like and a follow edge stored, an UnlikePost of a pair that has no
\* like row and an UnfollowUser(id, id) have returned the wrapped errors
C27_Witness ==
    /\ likes # {}
    /\ Len(follows) > 0
    /\ \E p \in Procs :
          /\ proc[p].op = "UnlikePost"
          /\ proc[p].pc = "idle"
          /\ proc[p].ret.err = Wrap("failed to unlike post", <<"like not found">>)
    /\ \E q \in Procs :
          /\ proc[q].op = "UnfollowUser"
          /\ proc[q].pc = "idle"
          /\ proc[q].arg.userID = proc[q].arg.followerID
          /\ proc[q].ret.err =
                Wrap("failed to unfollow user", <<"follow relationship not found">>)

\* process p holds a PUT or DELETE /posts/{postID} request that passed
\* middleware.Auth
OwnerCheckedRequest(p) ==
    /\ proc[p].op \in {"UpdatePost", "DeletePost"}
    /\ "authHeader" \in DOMAIN proc[p].arg

\* C28: the user id that middleware.Auth hands to the handlers is the all-zero
\* UUID for every Authorization header that starts with "Bearer ", so any two
\* requests carry the same id whatever their tokens, and the ownership check
\* of UpdatePost and DeletePost compares the post's author with that one id:
\* a request for a stored post is refused with ErrUnauthorized exactly when
\* the author is not the all-zero id, and one for a post that is not stored
\* gets ErrNotFound.
C28_TokenIgnored ==
    /\ [](/\ \A h \in AuthHeaders :
               (TrimPrefix(h, BearerPrefix) # h) =>
                  /\ Auth(h).status = 0
                  /\ Auth(h).userID = Ptr(ZeroUUID)
          /\ \A p \in Procs : OwnerCheckedRequest(p) => proc[p].arg.userID = ZeroUUID
          /\ \A p \in Procs, q \in Procs :
               (OwnerCheckedRequest(p) /\ OwnerCheckedRequest(q)) =>
                  proc[p].arg.userID = proc[q].arg.userID)
    /\ [][\A p \in Procs :
            (OwnerCheckedRequest(p)' /\ proc[p].pc = "idle" /\ Steps(p)) =>
               LET a == proc'[p].arg IN
               IF ~PostStored(a.postID)
               THEN proc'[p].pc = "idle" /\ proc'[p].ret.err = ErrNotFound
               ELSE IF PostByID(posts, a.postID).authorID # ZeroUUID
               THEN proc'[p].pc = "idle" /\ proc'[p].ret.err = ErrUnauthorized
               ELSE proc'[p].pc # "idle"]_vars

\* two requests with different bearer tokens for the same stored post have
\* both been refused
C28_Witness ==
    /\ OwnerCheckedRequest("p1")
    /\ OwnerCheckedRequest("p2")
    /\ proc["p1"].arg.authHeader = "Bearer t1"
    /\ proc["p2"].arg.authHeader = "Bearer t22"
    /\ proc["p1"].arg.postID = proc["p2"].arg.postID
    /\ PostStored(proc["p1"].arg.postID)
    /\ proc["p1"].ret.err = ErrUnauthorized
    /\ proc["p2"].ret.err = ErrUnauthorized

\* C29: every stored username is alphanumeric and 3 to 50 characters long, so
\* none is the string form of a user id, which contains hyphens.  GET /profile
\* passes the string form of the id of the request context to GetProfile as
\* the username; after any sequence of Register calls it answers every
\* authenticated request with ErrNotFound, status 404, and never with a
\* profile.
C29_MyProfileNotFound ==
    /\ [](\A i \in 1..Len(users) :
            /\ IsAlphanum(users[i].username)
            /\ Len(users[i].username) >= MinUsernameLen
            /\ Len(users[i].username) <= MaxUsernameLen
            /\ \A id \in {ZeroUUID} \cup IDs : users[i].username # UUIDString(id))
    /\ [][\A p \in Procs :
            (Completes(p, "GetProfile") /\ "route" \in DOMAIN proc'[p].arg) =>
               /\ proc'[p].arg.username = ZeroUUIDString
               /\ "-" \in Chars(proc'[p].arg.username)
               /\ proc'[p].ret.err = ErrNotFound
               /\ proc'[p].ret.val = Nil
               /\ ErrorStatus("GetProfile", proc'[p].ret.err) = 404]_vars

\* with a user stored and a registration under the string form of the
\* placeholder id refused, GET /profile has answered ErrNotFound
C29_Witness ==
    /\ Len(users) > 0
    /\ proc["p1"].op = "Register"
    /\ proc["p1"].pc = "idle"
    /\ proc["p1"].arg.username = ZeroUUIDString
    /\ ErrorsIs(proc["p1"].ret.err, ValidationErrors)
    /\ proc["p2"].op = "GetProfile"
    /\ "route" \in DOMAIN proc["p2"].arg
    /\ proc["p2"].arg.authHeader = "Bearer t1"
    /\ proc["p2"].ret.err = ErrNotFound

\* the outcomes of a lookup step agree: the result, the user kept for the
\* next step, and whether the call returns
SameStep(x, y) ==
    /\ x.ret = y.ret
    /\ x.loc = y.loc
    /\ (x.pc = "idle") <=> (y.pc = "idle")

\* the usernames of the equivalence check: those registered or listed
RefineUsernames == Usernames \cup RelationUsernames

\* C30: the refactored interaction service refines the direct one.  In every
\* reachable store and for every input, LikePost, UnlikePost, FollowUser,
\* UnfollowUser, GetFollowers and GetFollowing make the same repository calls
\* in the same order in both implementations, return the same result or the
\* same error text and leave the same store; and every step that either
\* implementation takes is the step of the direct one.
C30_Refines ==
    /\ [](/\ \A id \in TargetPostIDs, u \in IDs :
               LET a == [postID |-> id, userID |-> u] IN
               /\ HandleLikeInteractionResult(likes, users, posts, id, u, TRUE)
                     = LikePostResult(likes, users, posts, id, u)
               /\ HandleLikeInteractionResult(likes, users, posts, id, u, FALSE)
                     = UnlikePostResult(likes, id, u)
               /\ RefactoredCalls("LikePost", a, users) = DirectCalls("LikePost", a, users)
               /\ RefactoredCalls("UnlikePost", a, users) = DirectCalls("UnlikePost", a, users)
          /\ \A u \in IDs, f \in IDs :
               LET a == [userID |-> u, followerID |-> f] IN
               /\ HandleFollowInteractionResult(follows, users, u, f, TRUE)
                     = FollowUserResult(follows, users, u, f)
               /\ HandleFollowInteractionResult(follows, users, u, f, FALSE)
                     = UnfollowUserResult(follows, u, f)
               /\ RefactoredCalls("FollowUser", a, users) = DirectCalls("FollowUser", a, users)
               /\ RefactoredCalls("UnfollowUser", a, users)
                     = DirectCalls("UnfollowUser", a, users)
          /\ \A n \in RefineUsernames, l \in PageLimits, o \in PageOffsets :
               LET a == [username |-> n, limit |-> l, offset |-> o] IN
               /\ SameStep(GetUsersByRelationLoad(users, n), GetFollowersLoad(users, n))
               /\ SameStep(GetUsersByRelationLoad(users, n), GetFollowingLoad(users, n))
               /\ RefactoredCalls("GetFollowers", a, users)
                     = DirectCalls("GetFollowers", a, users)
               /\ RefactoredCalls("GetFollowing", a, users)
                     = DirectCalls("GetFollowing", a, users)
          /\ \A i \in 1..Len(users), l \in PageLimits, o \in PageOffsets :
               /\ GetUsersByRelationList(follows, users, users[i], l, o, TRUE)
                     = GetFollowersList(follows, users, users[i], l, o)
               /\ GetUsersByRelationList(follows, users, users[i], l, o, FALSE)
                     = GetFollowingList(follows, users, users[i], l, o))
    /\ [][\A p \in Procs :
            LET a == proc'[p].arg IN
            /\ Completes(p, "LikePost") =>
                 LET d == LikePostResult(likes, users, posts, a.postID, a.userID) IN
                 proc'[p].ret = d.ret /\ likes' = d.tbl /\ follows' = follows
            /\ Completes(p, "UnlikePost") =>
                 LET d == UnlikePostResult(likes, a.postID, a.userID) IN
                 proc'[p].ret = d.ret /\ likes' = d.tbl /\ follows' = follows
            /\ Completes(p, "FollowUser") =>
                 LET d == FollowUserResult(follows, users, a.userID, a.followerID) IN
                 proc'[p].ret = d.ret /\ follows' = d.flw /\ likes' = likes
            /\ Completes(p, "UnfollowUser") =>
                 LET d == UnfollowUserResult(follows, a.userID, a.followerID) IN
                 proc'[p].ret = d.ret /\ follows' = d.flw /\ likes' = likes
            /\ (proc'[p].op = "GetFollowers" /\ Steps(p)) =>
                 /\ likes' = likes /\ follows' = follows
                 /\ IF proc[p].pc = "idle"
                    THEN SameStep(proc'[p], GetFollowersLoad(users, a.username))
                    ELSE /\ proc'[p].pc = "idle"
                         /\ proc'[p].ret = GetFollowersList(follows, users, proc[p].loc[1],
                                                            a.limit, a.offset)
            /\ (proc'[p].op = "GetFollowing" /\ Steps(p)) =>
                 /\ likes' = likes /\ follows' = follows
                 /\ IF proc[p].pc = "idle"
                    THEN SameStep(proc'[p], GetFollowingLoad(users, a.username))
                    ELSE /\ proc'[p].pc = "idle"
                         /\ proc'[p].ret = GetFollowingList(follows, users, proc[p].loc[1],
                                                            a.limit, a.offset)]_vars

\* with a like and a follow edge stored, the direct and the refactored
\* GetFollowers have both listed ann's follower
C30_Witness ==
    /\ likes # {}
    /\ Len(follows) > 0
    /\ \A p \in Procs :
          /\ proc[p].op = "GetFollowers"
          /\ proc[p].pc = "idle"
          /\ proc[p].arg.username = "ann"
          /\ proc[p].ret.err = NoErr
          /\ Len(proc[p].ret.val) = 1
    /\ proc["p1"].ret = proc["p2"].ret

====
